---- MODULE Spec2Model ----
(***************************************************************************)
(* EnsuraScript: the compilation pipeline (bind, implication expansion,    *)
(* conflict check, dependency graph, planner) and the enforcement runtime. *)
(*                                                                         *)
(* A program is an AST: a sequence of statements, each an ensure           *)
(* statement, an on-block or an invariant block (blocks carry a body).     *)
(* Go maps are iterated in an unspecified order; wherever the code's       *)
(* result depends on that order the model takes a nondeterministic choice. *)
(***************************************************************************)
EXTENDS Integers, Sequences, FiniteSets, Bags, TLC

\* Largest number of ensure statements written in one source program.
MaxEnsures == 2

\* Largest number of enforcement passes a runtime makes.
MaxPasses == 2

\* Largest number of changes made to the files from outside the runtime.
MaxDrift == 1

\* The goroutines that call one Runtime.
MaxCallers == 2

----------------------------------------------------------------------------
(* Generic helpers *)

Range(s) == {s[i] : i \in DOMAIN s}

RECURSIVE Concat(_)
Concat(ss) == IF ss = <<>> THEN <<>> ELSE Head(ss) \o Concat(Tail(ss))

\* All functions f with the domain of cand and f[x] \in cand[x].
RECURSIVE Choices(_)
Choices(cand) ==
  IF DOMAIN cand = {} THEN {<<>>}
  ELSE LET x == CHOOSE y \in DOMAIN cand : TRUE
           rest == [y \in DOMAIN cand \ {x} |-> cand[y]]
       IN {(x :> v) @@ f : f \in Choices(rest), v \in cand[x]}

----------------------------------------------------------------------------
(* pkg/ast *)

\* A nil *ResourceRef.
NoRef == [rtype |-> "", path |-> "", alias |-> ""]

InlineRef(t, p) == [rtype |-> t, path |-> p, alias |-> ""]

\* parseResourceRef on an identifier that no string follows: an alias.
AliasRef(a) == [rtype |-> "", path |-> "", alias |-> a]

\* ResourceRef.String(): the alias, or  type "path".
RefString(r) == IF r.alias # "" THEN r.alias ELSE r.rtype \o " \"" \o r.path \o "\""

\* The callers' idiom: "" for a nil subject, subject.String() otherwise.
SubjectStr(r) == IF r = NoRef THEN "" ELSE RefString(r)

\* A nil *HandlerSpec.
NoHandler == [name |-> "", args |-> <<>>]

\* HandlerSpec: the name and the key/value arguments in the order written.
HandlerSpec(name, args) == [name |-> name, args |-> args]

\* The nil *ViolationHandler.
NoViolation == [present |-> FALSE, Retry |-> 0]

\* ViolationHandler: the retry count (the notify targets are never read by
\* the runtime).
ViolationHandler(retry) == [present |-> TRUE, Retry |-> retry]

\* The nil *GuardExpr.
NoGuard == [present |-> FALSE, Left |-> "", Operator |-> "", Right |-> ""]

\* GuardExpr: Left Operator "Right".
GuardExpr(left, op, right) == [present |-> TRUE, Left |-> left, Operator |-> op, Right |-> right]

\* Every statement has the same fields; the ones a kind does not use are empty.
EnsureStmt(pos, cond, subject, handler, requires, after, before) ==
  [kind |-> "ensure", pos |-> pos, cond |-> cond, subject |-> subject,
   handler |-> handler, requires |-> requires, after |-> after,
   before |-> before, body |-> <<>>, violation |-> NoViolation, guard |-> NoGuard]

OnBlock(pos, subject, body) ==
  [kind |-> "on", pos |-> pos, cond |-> "", subject |-> subject,
   handler |-> NoHandler, requires |-> <<>>, after |-> <<>>,
   before |-> <<>>, body |-> body, violation |-> NoViolation, guard |-> NoGuard]

InvariantBlock(pos, body) ==
  [kind |-> "invariant", pos |-> pos, cond |-> "", subject |-> NoRef,
   handler |-> NoHandler, requires |-> <<>>, after |-> <<>>,
   before |-> <<>>, body |-> body, violation |-> NoViolation, guard |-> NoGuard]

\* The top-level on-violation block with its handler.
OnViolationBlock(pos, handler) ==
  [kind |-> "violation", pos |-> pos, cond |-> "", subject |-> NoRef,
   handler |-> NoHandler, requires |-> <<>>, after |-> <<>>,
   before |-> <<>>, body |-> <<>>, violation |-> handler, guard |-> NoGuard]

\* ResourceDecl: ResourceType, Path and Alias are kept in the subject field.
ResourceDecl(pos, rtype, path, alias) ==
  [kind |-> "resource", pos |-> pos, cond |-> "",
   subject |-> [rtype |-> rtype, path |-> path, alias |-> alias],
   handler |-> NoHandler, requires |-> <<>>, after |-> <<>>,
   before |-> <<>>, body |-> <<>>, violation |-> NoViolation, guard |-> NoGuard]

\* ForEachStmt: ItemType is kept in cond, Container in subject, Statements
\* in body.
ForEachStmt(pos, itemType, container, body) ==
  [kind |-> "foreach", pos |-> pos, cond |-> itemType, subject |-> container,
   handler |-> NoHandler, requires |-> <<>>, after |-> <<>>,
   before |-> <<>>, body |-> body, violation |-> NoViolation, guard |-> NoGuard]

\* AssumeStmt with a guard expression (assume <ident> ==|!= "<string>").
AssumeStmt(pos, guard) ==
  [kind |-> "assume", pos |-> pos, cond |-> "", subject |-> NoRef,
   handler |-> NoHandler, requires |-> <<>>, after |-> <<>>,
   before |-> <<>>, body |-> <<>>, violation |-> NoViolation, guard |-> guard]

\* PolicyDecl: Name and Params are kept in the name and args of the handler
\* field, Statements in body.
PolicyDecl(pos, name, params, body) ==
  [kind |-> "policy", pos |-> pos, cond |-> "", subject |-> NoRef,
   handler |-> [name |-> name, args |-> params], requires |-> <<>>,
   after |-> <<>>, before |-> <<>>, body |-> body, violation |-> NoViolation, guard |-> NoGuard]

\* ApplyStmt: PolicyName and Args are kept in the name and args of the
\* handler field.
ApplyStmt(pos, name, args) ==
  [kind |-> "apply", pos |-> pos, cond |-> "", subject |-> NoRef,
   handler |-> [name |-> name, args |-> args], requires |-> <<>>,
   after |-> <<>>, before |-> <<>>, body |-> <<>>, violation |-> NoViolation, guard |-> NoGuard]

----------------------------------------------------------------------------
(* pkg/imply: the condition registry *)

ConditionMeta(types, implies, conflicts, handler) ==
  [ApplicableTypes |-> types, Implies |-> implies, Conflicts |-> conflicts,
   DefaultHandler |-> handler]

registerBuiltins ==
     ("exists"      :> ConditionMeta({"file", "directory"}, <<>>, <<>>, "fs.native"))
  @@ ("readable"    :> ConditionMeta({"file"}, <<"exists">>, <<>>, "fs.native"))
  @@ ("writable"    :> ConditionMeta({"file"}, <<"exists">>, <<>>, "fs.native"))
  @@ ("encrypted"   :> ConditionMeta({"file"}, <<"exists", "readable", "writable">>,
                                     <<"unencrypted">>, "AES:256"))
  @@ ("unencrypted" :> ConditionMeta({"file"}, <<"exists">>, <<"encrypted">>, ""))
  @@ ("permissions" :> ConditionMeta({"file", "directory"}, <<"exists">>, <<>>, "posix"))
  @@ ("checksum"    :> ConditionMeta({"file"}, <<"exists", "readable">>, <<>>, "fs.native"))
  @@ ("content"     :> ConditionMeta({"file"}, <<"exists">>, <<>>, "fs.native"))
  @@ ("running"     :> ConditionMeta({"process", "service"}, <<>>, <<"stopped">>,
                                     "process.native"))
  @@ ("stopped"     :> ConditionMeta({"process", "service"}, <<>>, <<"running">>,
                                     "process.native"))
  @@ ("listening"   :> ConditionMeta({"service"}, <<"running">>, <<>>, "service.native"))
  @@ ("healthy"     :> ConditionMeta({"service"}, <<"running">>, <<>>, "service.native"))
  @@ ("reachable"   :> ConditionMeta({"http"}, <<>>, <<>>, "http.get"))
  @@ ("status_code" :> ConditionMeta({"http"}, <<"reachable">>, <<>>, "http.get"))
  @@ ("tls"         :> ConditionMeta({"http"}, <<"reachable">>, <<>>, "http.get"))
  @@ ("scheduled"   :> ConditionMeta({"cron"}, <<>>, <<>>, "cron.native"))
  @@ ("backed_up"   :> ConditionMeta({"file", "database"}, <<"exists">>, <<>>,
                                     "backup.native"))
  @@ ("stable"      :> ConditionMeta({"database"}, <<>>, <<>>, "db.native"))

\* Registry.Get: ok is  c \in DOMAIN registerBuiltins.
Known(c) == c \in DOMAIN registerBuiltins

----------------------------------------------------------------------------
(* Source programs *)

\* The resources the source programs name.
ProgSubjects == {InlineRef("file", "f"), InlineRef("file", "g")}

NoClause == [type |-> "none", cond |-> "", ref |-> NoRef]

RequiresClauses(conds) == {[type |-> "requires", cond |-> c, ref |-> NoRef] : c \in conds}

\* Programs about blocks and implications: any condition, in any scope.
BlockConds == {"exists", "content", "encrypted", "unencrypted"}

BlockEntries ==
  [cond : BlockConds, subject : ProgSubjects,
   scope : {"top", "on", "invariant"}, clause : {NoClause}, handler : {NoHandler}]

\* Programs about ordering clauses: top-level ensures with one clause.
OrderConds == {"exists", "content"}

OrderEntries ==
  [cond : OrderConds, subject : ProgSubjects, scope : {"top"},
   clause : {NoClause} \cup RequiresClauses(OrderConds)
              \cup {[type |-> t, cond |-> "", ref |-> r] :
                      t \in {"after", "before"}, r \in ProgSubjects},
   handler : {NoHandler}]

\* Programs with requires clauses inside an on-block.
NestedEntries ==
  [cond : OrderConds, subject : {InlineRef("file", "f")}, scope : {"on"},
   clause : {NoClause} \cup RequiresClauses(OrderConds), handler : {NoHandler}]

\* Programs on a resource type some conditions do not apply to.
TypedEntries ==
  [cond : {"exists", "encrypted", "unencrypted"},
   subject : {InlineRef("directory", "d")}, scope : {"top"}, clause : {NoClause}, handler : {NoHandler}]

\* Programs with ensure statements that name no subject.
ImplicitEntries ==
  [cond : OrderConds, subject : {InlineRef("file", "f"), NoRef}, scope : {"top"},
   clause : {NoClause}, handler : {NoHandler}]

EntryFamilies == {BlockEntries, OrderEntries, NestedEntries, TypedEntries, ImplicitEntries}

\* A source text is the sequence of its ensure statements, one per line.
Sources == UNION {[1..n -> F] : n \in 1..MaxEnsures, F \in EntryFamilies}

\* Programs that are run: guarantees on one file, with the handlers and
\* arguments the built-in adapters read.
RunEntries ==
  [cond : {"exists"}, subject : {InlineRef("file", "f")}, scope : {"top"},
   clause : {NoClause}, handler : {NoHandler}]
  \cup
  [cond : {"content"}, subject : {InlineRef("file", "f")}, scope : {"top"},
   clause : {NoClause},
   handler : {HandlerSpec("fs.native", <<<<"expected", "A">>, <<"content", "A">>>>)}]
  \cup
  [cond : {"encrypted"}, subject : {InlineRef("file", "f")}, scope : {"top"},
   clause : {NoClause},
   handler : {HandlerSpec("AES:256", <<<<"key", "k">>>>)}]
  \cup
  [cond : {"backed_up"}, subject : {InlineRef("file", "f")}, scope : {"top"},
   clause : {NoClause}, handler : {NoHandler}]

\* One such guarantee, or two in either order.
RunSources == [{1} -> RunEntries] \cup [{1, 2} -> RunEntries]

\* The bodies of the on-violation blocks the programs have.
ViolationBodies == {"notify \"ops\"", "retry 0", "retry 1", "retry 2"}

\* A line  on violation { body }.
ViolationLines ==
  [cond : ViolationBodies, subject : {NoRef}, scope : {"violation"},
   clause : {NoClause}, handler : {NoHandler}]

\* Guarantees no repair achieves: the AES handler finds no key, and the
\* filesystem handler writes the content argument but compares the file with
\* the expected argument.
RetryEntries ==
  [cond : {"encrypted"}, subject : {InlineRef("file", "f")}, scope : {"top"},
   clause : {NoClause}, handler : {NoHandler}]
  \cup
  [cond : {"content"}, subject : {InlineRef("file", "f")}, scope : {"top"},
   clause : {NoClause},
   handler : {HandlerSpec("fs.native", <<<<"content", "A">>>>)}]

\* One such guarantee, with or without an on-violation block before it and
\* one after it.
RetrySources ==
  [{1} -> RetryEntries]
  \cup {<<v, e>> : v \in ViolationLines, e \in RetryEntries}
  \cup {<<e, v>> : v \in ViolationLines, e \in RetryEntries}
  \cup {<<v, e, w>> : v \in ViolationLines, w \in ViolationLines, e \in RetryEntries}

\* Programs with an on-violation block directly after an ensure statement
\* that names its subject or, after an ensure statement on file "f", takes
\* it implicitly.
HandlerSources ==
  {pre \o <<e, v>> :
     pre \in {<<>>} \cup {<<p>> : p \in [cond : OrderConds, subject : {InlineRef("file", "f")},
                                         scope : {"top"}, clause : {NoClause},
                                         handler : {NoHandler}]},
     e \in [cond : OrderConds, subject : {NoRef, InlineRef("file", "f")}, scope : {"top"},
            clause : {NoClause}, handler : {NoHandler}],
     v \in ViolationLines}

\* The lines of the body of "policy secure_file(key_ref) { ... }".
PolicyLines ==
  {[cond |-> "encrypted", subject |-> NoRef, scope |-> "policy", clause |-> NoClause,
    handler |-> HandlerSpec("AES:256", <<<<"key", "key_ref">>>>)],
   [cond |-> "exists", subject |-> NoRef, scope |-> "policy", clause |-> NoClause,
    handler |-> NoHandler]}

\* The apply statements: the policy with its argument, without it, and a
\* policy that is not declared.
Applications ==
  {HandlerSpec("secure_file", <<"env:KEY">>), HandlerSpec("secure_file", <<>>),
   HandlerSpec("dev_file", <<>>)}

\* The lines of a block on file "f": directly in the program (scope "on") or
\* inside an invariant block (scope "invariant on").
PolicyBlockLines(scope) ==
  {[cond |-> "exists", subject |-> InlineRef("file", "f"), scope |-> scope,
    clause |-> NoClause, handler |-> NoHandler]}
  \cup {[cond |-> "apply", subject |-> InlineRef("file", "f"), scope |-> scope,
         clause |-> NoClause, handler |-> a] : a \in Applications}

\* A policy declaration followed by one block.
PolicySources ==
  {p \o b : p \in UNION {[1..n -> PolicyLines] : n \in 1..MaxEnsures},
            b \in UNION {[1..n -> PolicyBlockLines(s)] :
                           n \in 1..MaxEnsures, s \in {"on", "invariant on"}}}

\* The lines of a policy body that has a handler on a condition another of
\* its lines implies.
NodePolicyLines ==
  {[cond |-> "exists", subject |-> NoRef, scope |-> "policy", clause |-> NoClause,
    handler |-> HandlerSpec("fs.native", <<<<"mode", "key_ref">>>>)],
   [cond |-> "exists", subject |-> NoRef, scope |-> "policy", clause |-> NoClause,
    handler |-> NoHandler],
   [cond |-> "content", subject |-> NoRef, scope |-> "policy", clause |-> NoClause,
    handler |-> NoHandler]}

\* Such a policy declaration followed by a block on file "f" that applies it.
NodeSources ==
  {p \o b : p \in UNION {[1..n -> NodePolicyLines] : n \in 1..MaxEnsures},
            b \in UNION {[1..n -> PolicyBlockLines("on")] : n \in 1..MaxEnsures}}

\* Programs whose ensure statements name a handler or none: exists, and
\* content, which implies it.
ExplicitEntries ==
  [cond : OrderConds, subject : ProgSubjects, scope : {"top"}, clause : {NoClause},
   handler : {NoHandler}]
  \cup
  [cond : {"exists"}, subject : ProgSubjects, scope : {"top"}, clause : {NoClause},
   handler : {HandlerSpec("fs.native", <<<<"mode", "0644">>>>)}]
  \cup
  [cond : {"content"}, subject : ProgSubjects, scope : {"top"}, clause : {NoClause},
   handler : {HandlerSpec("fs.native", <<<<"content", "A">>>>)}]

ExplicitSources == UNION {[1..n -> ExplicitEntries] : n \in 1..MaxEnsures}

\* The guard expressions the programs have, as written.
GuardTexts == {"environment == \"prod\"", "environment != \"prod\"", "environment == \"dev\""}

\* Programs with guards: an assume statement that sets environment, then
\* ensure statements on file "f", with or without a when clause.
AssumeLines ==
  [cond : {"environment == \"prod\"", "environment == \"dev\""}, subject : {NoRef},
   scope : {"assume"}, clause : {NoClause}, handler : {NoHandler}]

GuardEntries ==
  [cond : {"exists", "content"}, subject : {InlineRef("file", "f")}, scope : {"top"},
   clause : {NoClause} \cup {[type |-> "when", cond |-> g, ref |-> NoRef] : g \in GuardTexts},
   handler : {NoHandler}]

GuardSources ==
  {<<a>> \o es : a \in AssumeLines,
                 es \in UNION {[1..n -> GuardEntries] : n \in 1..MaxEnsures}}

\* Programs with an ensure statement after an on-block: optionally an ensure
\* on file "g" and an assume statement first, then a block on file "f", then
\* an ensure statement with or without a subject of its own.
ScopeSources ==
  {pre \o b \o <<t>> :
     pre \in {<<>>, <<[cond |-> "exists", subject |-> InlineRef("file", "g"), scope |-> "top",
                       clause |-> NoClause, handler |-> NoHandler],
                      [cond |-> "environment == \"dev\"", subject |-> NoRef,
                       scope |-> "assume", clause |-> NoClause, handler |-> NoHandler]>>},
     b \in UNION {[1..n -> [cond : OrderConds, subject : {InlineRef("file", "f")},
                             scope : {"on"}, clause : {NoClause}, handler : {NoHandler}]] :
                    n \in 1..MaxEnsures},
     t \in [cond : OrderConds, subject : {NoRef, InlineRef("file", "g")}, scope : {"top"},
            clause : {NoClause}, handler : {NoHandler}]}

\* Programs that declare  resource file "f" as a  and name the file by the
\* alias a, inline, or by the undeclared alias b.
AliasSources ==
  {<<[cond |-> "resource", subject |-> [rtype |-> "file", path |-> "f", alias |-> "a"],
      scope |-> "resource", clause |-> NoClause, handler |-> NoHandler]>> \o es :
     es \in UNION {[1..n -> [cond : BlockConds,
                             subject : {AliasRef("a"), AliasRef("b"), InlineRef("file", "f")},
                             scope : {"top"}, clause : {NoClause}, handler : {NoHandler}]] :
                     n \in 1..MaxEnsures}}

\* Programs of for-each loops over directory "d", at the top level or in an
\* invariant block, whose ensure statements name a subject or none.
ForEachSources ==
  UNION {[1..n -> [cond : OrderConds, subject : {NoRef, InlineRef("file", "f")},
                   scope : {"foreach", "invariant foreach"}, clause : {NoClause},
                   handler : {NoHandler}]] :
           n \in 1..MaxEnsures}

\* parseGuardExpr, and the guard branch of parseAssumeStmt, on the text of a
\* guard expression.
parseGuardExpr(text) ==
  CASE text = "environment == \"prod\"" -> GuardExpr("environment", "==", "prod")
    [] text = "environment != \"prod\"" -> GuardExpr("environment", "!=", "prod")
    [] text = "environment == \"dev\"" -> GuardExpr("environment", "==", "dev")
    [] OTHER -> NoGuard

\* parseViolationHandlerBlock / parseOnViolationBlock: the handler of a
\* block body, its retry count read by strconv.Atoi.
parseViolationHandlerBlock(body) ==
  ViolationHandler(CASE body = "retry 1" -> 1
                     [] body = "retry 2" -> 2
                     [] OTHER -> 0)

\* parseEnsureStmt: the ensure statement on line i; inside an on-block the
\* subject is left nil for the binder.
ParseEnsure(e, i) ==
  [EnsureStmt(i, e.cond,
             IF e.scope \in {"on", "invariant on"} THEN NoRef ELSE e.subject,
             e.handler,
             IF e.clause.type = "requires" THEN <<e.clause.cond>> ELSE <<>>,
             IF e.clause.type = "after" THEN <<e.clause.ref>> ELSE <<>>,
             IF e.clause.type = "before" THEN <<e.clause.ref>> ELSE <<>>)
   EXCEPT !.guard = IF e.clause.type = "when" THEN parseGuardExpr(e.clause.cond)
                                              ELSE NoGuard]

\* parseApplyStmt for an apply line, parseEnsureStmt for any other.
ParseLine(e, i) ==
  IF e.cond = "apply" THEN ApplyStmt(i, e.handler.name, e.handler.args)
                      ELSE ParseEnsure(e, i)

\* The last line of the block that starts on line i: adjacent lines of one
\* scope (and, for an on-block, one subject) are one block.
RECURSIVE BlockEnd(_, _)
BlockEnd(es, i) ==
  IF /\ i < Len(es)
     /\ es[i + 1].scope = es[i].scope
     /\ es[i].scope \in {"on", "invariant on"} => es[i + 1].subject = es[i].subject
  THEN BlockEnd(es, i + 1)
  ELSE i

\* Parser.Parse / parseStatement on the lines from i on.
RECURSIVE ParseFrom(_, _)
ParseFrom(es, i) ==
  IF i > Len(es) THEN <<>>
  ELSE IF es[i].scope = "violation"
  THEN <<OnViolationBlock(i, parseViolationHandlerBlock(es[i].cond))>>
         \o ParseFrom(es, i + 1)
  ELSE IF es[i].scope = "assume"
  THEN <<AssumeStmt(i, parseGuardExpr(es[i].cond))>> \o ParseFrom(es, i + 1)
  ELSE IF es[i].scope = "resource"
  THEN <<ResourceDecl(i, es[i].subject.rtype, es[i].subject.path, es[i].subject.alias)>>
         \o ParseFrom(es, i + 1)
  ELSE IF es[i].scope = "top"
  THEN IF i < Len(es) /\ es[i + 1].scope = "violation"
       THEN <<[ParseEnsure(es[i], i) EXCEPT
                 !.violation = parseViolationHandlerBlock(es[i + 1].cond)]>>
              \o ParseFrom(es, i + 2)
       ELSE <<ParseEnsure(es[i], i)>> \o ParseFrom(es, i + 1)
  ELSE LET j == BlockEnd(es, i)
           body == [k \in 1..(j - i + 1) |-> ParseLine(es[i + k - 1], i + k - 1)]
       IN <<CASE es[i].scope = "on" -> OnBlock(i, es[i].subject, body)
              [] es[i].scope = "invariant on" ->
                   InvariantBlock(i, <<OnBlock(i, es[i].subject, body)>>)
              [] es[i].scope = "foreach" ->
                   ForEachStmt(i, "file", InlineRef("directory", "d"), body)
              [] es[i].scope = "invariant foreach" ->
                   InvariantBlock(i, <<ForEachStmt(i, "file", InlineRef("directory", "d"),
                                                   body)>>)
              [] es[i].scope = "policy" ->
                   PolicyDecl(i, "secure_file", <<"key_ref">>, body)
              [] OTHER -> InvariantBlock(i, body)>>
            \o ParseFrom(es, j + 1)

\* ParseString: [program, errors].  parseEnsureStmt takes an "on" that
\* follows an ensure statement for a clause of that statement: an
\* on-violation block there is the statement's own handler if the statement
\* names its subject, and an on-block (or an on-violation block after a
\* statement without a subject) leaves tokens the parser rejects.
ParseString(es) ==
  [program |-> ParseFrom(es, 1),
   errors |-> Cardinality({i \in DOMAIN es :
                 /\ i < Len(es)
                 /\ es[i].scope = "top"
                 /\ \/ es[i + 1].scope = "on"
                    \/ es[i + 1].scope = "violation" /\ es[i].subject = NoRef})]

----------------------------------------------------------------------------
(* pkg/binder *)

\* bindEnsureStmt: [stmts: the bound statement or nothing, last: the slot
\* afterwards, errors].
bindEnsureStmt(stmt, last) ==
  IF stmt.subject = NoRef
  THEN IF last = NoRef
       THEN [stmts |-> <<>>, last |-> last, errors |-> 1]
       ELSE [stmts |-> <<[stmt EXCEPT !.subject = last]>>, last |-> last, errors |-> 0]
  ELSE [stmts |-> <<stmt>>, last |-> stmt.subject, errors |-> 0]

\* Binder.Bind, first pass: the policy table, as the declarations of the
\* program in order (PolicyTable.Add keeps the first of a name).
collectPolicies(prog) == SelectSeq(prog, LAMBDA s : s.kind = "policy")

\* PolicyTable.Lookup: the declarations of the name; the first is the entry.
Lookup(policies, name) == SelectSeq(policies, LAMBDA d : d.handler.name = name)

\* bindApplyStmt: the statement, or an error for an undefined policy or a
\* wrong number of arguments.
bindApplyStmt(stmt, policies) ==
  LET found == Lookup(policies, stmt.handler.name) IN
  IF found = <<>> \/ Len(stmt.handler.args) # Len(found[1].handler.args)
  THEN [stmts |-> <<>>, errors |-> 1]
  ELSE [stmts |-> <<stmt>>, errors |-> 0]

\* The loop of bindOnBlock over the block's statements; blockSubject is the
\* local slot the ensure statements of the block share.
RECURSIVE bindOnBody(_, _, _)
bindOnBody(body, blockSubject, policies) ==
  IF body = <<>> THEN [stmts |-> <<>>, errors |-> 0]
  ELSE LET s == Head(body) IN
       CASE s.kind = "ensure" ->
              LET s1 == IF s.subject = NoRef THEN [s EXCEPT !.subject = blockSubject] ELSE s
                  b == bindEnsureStmt(s1, blockSubject)
                  r == bindOnBody(Tail(body), b.last, policies)
              IN [stmts |-> b.stmts \o r.stmts, errors |-> b.errors + r.errors]
         [] s.kind = "apply" ->
              LET b == bindApplyStmt(s, policies)
                  r == bindOnBody(Tail(body), blockSubject, policies)
              IN [stmts |-> b.stmts \o r.stmts, errors |-> b.errors + r.errors]
         [] OTHER ->
              LET r == bindOnBody(Tail(body), blockSubject, policies)
              IN [stmts |-> <<s>> \o r.stmts, errors |-> r.errors]

RECURSIVE bindStatement(_, _, _)
RECURSIVE bindFresh(_, _)

\* bindInvariantBlock's loop: every statement starts from a nil slot.
bindFresh(body, policies) ==
  IF body = <<>> THEN [stmts |-> <<>>, errors |-> 0]
  ELSE LET b == bindStatement(Head(body), NoRef, policies)
           r == bindFresh(Tail(body), policies)
       IN [stmts |-> b.stmts \o r.stmts, errors |-> b.errors + r.errors]

bindStatement(stmt, last, policies) ==
  CASE stmt.kind = "ensure" -> bindEnsureStmt(stmt, last)
    [] stmt.kind = "on" ->
         LET b == bindOnBody(stmt.body, stmt.subject, policies)
         IN [stmts |-> <<[stmt EXCEPT !.body = b.stmts]>>,
             last |-> stmt.subject, errors |-> b.errors]
    [] stmt.kind = "invariant" ->
         LET b == bindFresh(stmt.body, policies)
         IN [stmts |-> <<[stmt EXCEPT !.body = b.stmts]>>,
             last |-> last, errors |-> b.errors]
    [] stmt.kind = "apply" ->
         LET b == bindApplyStmt(stmt, policies)
         IN [stmts |-> b.stmts, last |-> last, errors |-> b.errors]
    [] stmt.kind = "foreach" ->
         LET b == bindFresh(stmt.body, policies)
         IN [stmts |-> <<[stmt EXCEPT !.body = b.stmts]>>,
             last |-> last, errors |-> b.errors]
    [] OTHER -> [stmts |-> <<stmt>>, last |-> last, errors |-> 0]

\* Binder.Bind, second pass: the statements of the program bound in order,
\* threading lastSubject.
RECURSIVE bindAll(_, _, _)
bindAll(stmts, last, policies) ==
  IF stmts = <<>> THEN [stmts |-> <<>>, errors |-> 0]
  ELSE LET b == bindStatement(Head(stmts), last, policies)
           r == bindAll(Tail(stmts), b.last, policies)
       IN [stmts |-> b.stmts \o r.stmts, errors |-> b.errors + r.errors]

\* Binder.Bind, first pass: the resource table, as the declarations of the
\* program in order.
collectResources(prog) == SelectSeq(prog, LAMBDA s : s.kind = "resource")

\* validateResourceRef: an alias no declaration has is an error; an inline
\* reference needs no declaration.
validateResourceRef(ref, resources) ==
  IF /\ ref # NoRef
     /\ ref.alias # ""
     /\ \A i \in DOMAIN resources : resources[i].subject.alias # ref.alias
  THEN 1 ELSE 0

\* The validateResourceRef calls of the second pass: on the subject an
\* ensure statement names and on the subject of an on-block.
RECURSIVE validateAll(_, _)
validateAll(stmts, resources) ==
  IF stmts = <<>> THEN 0
  ELSE LET s == Head(stmts) IN
       (CASE s.kind = "ensure" -> validateResourceRef(s.subject, resources)
          [] s.kind = "on" -> validateResourceRef(s.subject, resources)
          [] s.kind = "invariant" -> validateAll(s.body, resources)
          [] s.kind = "foreach" ->
               validateResourceRef(s.subject, resources) + validateAll(s.body, resources)
          [] OTHER -> 0)
       + validateAll(Tail(stmts), resources)

\* Binder.Bind: a policy name, a resource or an alias declared twice is an
\* error of the first pass.
BindProgram(prog) ==
  LET policies == collectPolicies(prog)
      resources == collectResources(prog)
      b == bindAll(prog, NoRef, policies)
  IN [stmts |-> b.stmts,
      errors |-> b.errors + validateAll(prog, resources)
                 + Cardinality({i \in DOMAIN resources : \E j \in 1..(i - 1) :
                      \/ /\ resources[j].subject.rtype = resources[i].subject.rtype
                         /\ resources[j].subject.path = resources[i].subject.path
                      \/ /\ resources[i].subject.alias # ""
                         /\ resources[j].subject.alias = resources[i].subject.alias})
                 + Cardinality({i \in DOMAIN policies : \E j \in 1..(i - 1) :
                                           policies[j].handler.name = policies[i].handler.name})]

\* The params map of expandApply: the argument bound to the parameter name v
\* (the last parameter of that name that has an argument), or v itself.
substitute(v, params, args) ==
  LET bound == {i \in DOMAIN params : i <= Len(args) /\ params[i] = v}
  IN IF bound = {} THEN v
     ELSE args[CHOOSE i \in bound : \A j \in bound : j <= i]

\* expandApply: a clone of every ensure statement of the policy, at the
\* position of the apply statement and on the given subject, its handler's
\* argument values substituted; the clone keeps Condition, Guard and Requires
\* and nothing else of the statement.
expandApply(apply, subject, policies) ==
  LET found == Lookup(policies, apply.handler.name) IN
  IF found = <<>> THEN <<>>
  ELSE LET policy == found[1]
           ensures == SelectSeq(policy.body, LAMBDA s : s.kind = "ensure")
       IN [k \in DOMAIN ensures |->
             LET stmt == ensures[k]
                 h == stmt.handler
             IN [EnsureStmt(apply.pos, stmt.cond, subject,
                  IF h = NoHandler THEN NoHandler
                  ELSE HandlerSpec(h.name,
                         [n \in DOMAIN h.args |->
                            <<h.args[n][1],
                              substitute(h.args[n][2], policy.handler.args,
                                         apply.handler.args)>>]),
                  stmt.requires, <<>>, <<>>) EXCEPT !.guard = stmt.guard]]

\* expandOnBlock: the apply statements among the block's own statements are
\* replaced by their expansion, every other statement is kept as it is.
expandOnBlock(block, policies) ==
  [block EXCEPT !.body =
     Concat([k \in DOMAIN block.body |->
               IF block.body[k].kind = "apply"
               THEN expandApply(block.body[k], block.subject, policies)
               ELSE <<block.body[k]>>])]

\* ExpandPolicies: the on-blocks among the program's own statements are
\* expanded, every other statement is kept as it is.
ExpandPolicies(prog) ==
  LET policies == collectPolicies(prog)
  IN [k \in DOMAIN prog |->
        IF prog[k].kind = "on" THEN expandOnBlock(prog[k], policies) ELSE prog[k]]

----------------------------------------------------------------------------
(* pkg/imply: the expander *)

\* The type check of expandEnsure: 1 if it appends an error, else 0.
typeError(stmt) ==
  IF /\ stmt.subject # NoRef
     /\ stmt.subject.rtype # ""
     /\ stmt.subject.rtype \notin registerBuiltins[stmt.cond].ApplicableTypes
  THEN 1 ELSE 0

\* The statement expandEnsure synthesizes for an implied condition.
impliedStmt(stmt, implied) ==
  [EnsureStmt(stmt.pos, implied, stmt.subject, NoHandler, <<>>, <<>>, <<>>)
     EXCEPT !.guard = stmt.guard]

\* expandEnsure: the implied statements (each expanded in turn) first, the
\* statement itself last.
RECURSIVE expandEnsure(_)
expandEnsure(stmt) ==
  IF ~Known(stmt.cond) THEN [stmts |-> <<stmt>>, errors |-> 0]
  ELSE LET imp == registerBuiltins[stmt.cond].Implies
           sub == [i \in DOMAIN imp |-> expandEnsure(impliedStmt(stmt, imp[i]))]
           RECURSIVE Sum(_)
           Sum(i) == IF i = 0 THEN 0 ELSE sub[i].errors + Sum(i - 1)
       IN [stmts |-> Concat([i \in DOMAIN imp |-> sub[i].stmts]) \o <<stmt>>,
           errors |-> typeError(stmt) + Sum(Len(imp))]

\* expandStatement over a statement list (expandOnBlock, expandInvariantBlock
\* and Expand's own loop are this loop on the block's or program's statements).
RECURSIVE expandStatements(_)
expandStatements(stmts) ==
  IF stmts = <<>> THEN [stmts |-> <<>>, errors |-> 0]
  ELSE LET s == Head(stmts)
           e == CASE s.kind = "ensure" -> expandEnsure(s)
                  [] s.kind \in {"on", "invariant", "foreach"} ->
                       LET b == expandStatements(s.body)
                       IN [stmts |-> <<[s EXCEPT !.body = b.stmts]>>, errors |-> b.errors]
                  [] OTHER -> [stmts |-> <<s>>, errors |-> 0]
           r == expandStatements(Tail(stmts))
       IN [stmts |-> e.stmts \o r.stmts, errors |-> e.errors + r.errors]

\* statementKey with the nil-subject key for every ensure statement.
statementKeyNoSubject(stmt) == IF stmt.kind = "ensure" THEN stmt.cond ELSE ""

\* statementKey: condition:subject for an ensure statement, "" otherwise.
statementKey(stmt) ==
  IF stmt.kind = "ensure"
  THEN IF stmt.subject # NoRef THEN stmt.cond \o ":" \o RefString(stmt.subject)
                               ELSE stmt.cond
  ELSE ""

\* deduplicate: keeps the first statement of every key; statements with the
\* empty key (the blocks) are always kept.
RECURSIVE dedupFrom(_, _)
dedupFrom(stmts, seen) ==
  IF stmts = <<>> THEN <<>>
  ELSE LET key == statementKey(Head(stmts)) IN
       IF key = "" \/ key \notin seen
       THEN <<Head(stmts)>> \o dedupFrom(Tail(stmts), IF key # "" THEN seen \cup {key} ELSE seen)
       ELSE dedupFrom(Tail(stmts), seen)

deduplicate(stmts) == dedupFrom(stmts, {})

\* Expander.Expand: [stmts: the program's new statements, errors].
Expand(prog) ==
  LET e == expandStatements(prog)
  IN [stmts |-> deduplicate(e.stmts), errors |-> e.errors]

\* collectEnsures without the descent into blocks.
collectEnsuresTopLevel(stmts) == SelectSeq(stmts, LAMBDA s : s.kind = "ensure")

\* collectEnsures, flattened: every ensure statement of the program in
\* source order (the code groups them by subject, keeping this order).
RECURSIVE collectEnsures(_)
collectEnsures(stmts) ==
  IF stmts = <<>> THEN <<>>
  ELSE LET s == Head(stmts) IN
       (CASE s.kind = "ensure" -> <<s>>
          [] s.kind \in {"on", "invariant", "foreach"} -> collectEnsures(s.body)
          [] OTHER -> <<>>)
       \o collectEnsures(Tail(stmts))

\* Expander.CheckConflicts: one message for every ensure statement and every
\* entry of its Conflicts that an ensure statement of the same subject, at
\* or before it, has as its condition.
CheckConflicts(prog) ==
  LET es == collectEnsures(prog)
  IN {[pos |-> es[i].pos, cond |-> es[i].cond, conflict |-> c,
       subject |-> SubjectStr(es[i].subject)] :
        <<i, c>> \in {<<i, c>> \in (DOMAIN es) \X DOMAIN registerBuiltins :
                        /\ Known(es[i].cond)
                        /\ c \in Range(registerBuiltins[es[i].cond].Conflicts)
                        /\ \E j \in 1..i :
                             /\ SubjectStr(es[j].subject) = SubjectStr(es[i].subject)
                             /\ es[j].cond = c}}

----------------------------------------------------------------------------
(* pkg/graph *)

\* generateID: the string condition:subject@position, kept as its three parts.
generateID(stmt) ==
  [cond |-> stmt.cond, subject |-> SubjectStr(stmt.subject), pos |-> stmt.pos]

\* The strings that occur in IDs, in the byte order Go compares them in.
CondOrder ==
  <<"backed_up", "checksum", "content", "encrypted", "exists", "healthy",
    "listening", "permissions", "reachable", "readable", "running", "scheduled",
    "stable", "status_code", "stopped", "tls", "unencrypted", "writable">>

SubjectOrder == <<"", "a", "b", "directory \"d\"", "file \"f\"", "file \"g\"">>

Rank(order, x) == CHOOSE i \in DOMAIN order : order[i] = x

\* a.ID < b.ID on the ID strings (no condition name is a prefix of another,
\* and positions are single digits, so the parts compare in turn).
IDLess(a, b) ==
  \/ Rank(CondOrder, a.cond) < Rank(CondOrder, b.cond)
  \/ /\ a.cond = b.cond
     /\ \/ Rank(SubjectOrder, a.subject) < Rank(SubjectOrder, b.subject)
        \/ a.subject = b.subject /\ a.pos < b.pos

Edge(from, to, type) == [From |-> from, To |-> to, Type |-> type]

NewGraph == [Nodes |-> <<>>, Edges |-> EmptyBag, Invariants |-> {}]

RECURSIVE BagSum(_)
BagSum(bags) == IF bags = <<>> THEN EmptyBag ELSE Head(bags) (+) BagSum(Tail(bags))

\* buildFromStatements / processStatement: the addGuarantee calls Build makes,
\* in order, each with its isInvariant and priority arguments.
RECURSIVE buildFromStatements(_, _, _)
buildFromStatements(stmts, isInvariant, basePriority) ==
  IF stmts = <<>> THEN <<>>
  ELSE LET s == Head(stmts) IN
       (CASE s.kind = "ensure" ->
               <<[stmt |-> s, isInvariant |-> isInvariant, priority |-> basePriority]>>
          [] s.kind \in {"on", "foreach"} ->
               buildFromStatements(s.body, isInvariant, basePriority)
          [] s.kind = "invariant" -> buildFromStatements(s.body, TRUE, basePriority + 1000)
          [] OTHER -> <<>>)
       \o buildFromStatements(Tail(stmts), isInvariant, basePriority)

\* findGuaranteeByCondition returns the first match of a map iteration: any
\* of these nodes ("" when there is none).
findGuaranteeByCondition(nodes, condition, subject) ==
  {id \in DOMAIN nodes :
     /\ nodes[id].Statement.cond = condition
     /\ SubjectStr(nodes[id].Statement.subject) = SubjectStr(subject)}

findGuaranteesByResource(nodes, ref) ==
  {id \in DOMAIN nodes :
     /\ nodes[id].Statement.subject # NoRef
     /\ RefString(nodes[id].Statement.subject) = RefString(ref)}

\* The keys of g.Nodes once the first k addGuarantee calls are done.
NodesAfter(calls, k) ==
  [id \in {generateID(calls[i].stmt) : i \in 1..k} |->
     LET last == CHOOSE i \in 1..k :
                   /\ generateID(calls[i].stmt) = id
                   /\ \A j \in (i + 1)..k : generateID(calls[j].stmt) # id
     IN [ID |-> id, Statement |-> calls[last].stmt, Priority |-> calls[last].priority]]

\* The lookups findGuaranteeByCondition answers with a node: for the j-th
\* requires clause of the k-th call, the nodes it may return.
RequiresLookups(calls) ==
  LET sites == {<<k, j>> \in (DOMAIN calls) \X (1..1) : j \in DOMAIN calls[k].stmt.requires}
      found(k, j) == findGuaranteeByCondition(NodesAfter(calls, k),
                                              calls[k].stmt.requires[j],
                                              calls[k].stmt.subject)
  IN [s \in {t \in sites : found(t[1], t[2]) # {}} |-> found(s[1], s[2])]

\* addGuarantee for the k-th call; reqID resolves its requires lookups.
addGuarantee(g, calls, k, reqID) ==
  LET stmt == calls[k].stmt
      id == generateID(stmt)
      nodes == (id :> [ID |-> id, Statement |-> stmt, Priority |-> calls[k].priority])
                 @@ g.Nodes
      requires == BagSum([j \in DOMAIN stmt.requires |->
                    IF <<k, j>> \in DOMAIN reqID
                    THEN SetToBag({Edge(reqID[<<k, j>>], id, "requires")})
                    ELSE EmptyBag])
      after == BagSum([j \in DOMAIN stmt.after |->
                 SetToBag({Edge(a, id, "after") :
                             a \in findGuaranteesByResource(nodes, stmt.after[j])})])
      before == BagSum([j \in DOMAIN stmt.before |->
                  SetToBag({Edge(id, b, "before") :
                              b \in findGuaranteesByResource(nodes, stmt.before[j])})])
  IN [Nodes |-> nodes,
      Edges |-> g.Edges (+) requires (+) after (+) before,
      Invariants |-> IF calls[k].isInvariant THEN g.Invariants \cup {id}
                                             ELSE g.Invariants]

RECURSIVE addGuarantees(_, _, _, _)
addGuarantees(g, calls, k, reqID) ==
  IF k > Len(calls) THEN g
  ELSE addGuarantees(addGuarantee(g, calls, k, reqID), calls, k + 1, reqID)

\* The graph stage's own implication table.
impliedBy ==
     ("encrypted"   :> <<"exists", "readable", "writable">>)
  @@ ("permissions" :> <<"exists">>)
  @@ ("readable"    :> <<"exists">>)
  @@ ("writable"    :> <<"exists">>)
  @@ ("checksum"    :> <<"exists", "readable">>)
  @@ ("content"     :> <<"exists">>)
  @@ ("listening"   :> <<"running">>)
  @@ ("healthy"     :> <<"running">>)
  @@ ("status_code" :> <<"reachable">>)
  @@ ("tls"         :> <<"reachable">>)
  @@ ("backed_up"   :> <<"exists">>)

\* conditionToID of buildImplicitEdges: for each subject and condition the
\* map keeps the node iterated last, which may be any node of that pair.
ConditionToIDs(nodes) ==
  [p \in {<<id.subject, id.cond>> : id \in DOMAIN nodes} |->
     {id \in DOMAIN nodes : id.subject = p[1] /\ id.cond = p[2]}]

buildImplicitEdges(g, conditionToID) ==
  [g EXCEPT !.Edges = @ (+) SetToBag(
     {Edge(conditionToID[<<id.subject, implied>>], id, "implies") :
        <<id, implied>> \in
          {<<id, implied>> \in (DOMAIN g.Nodes) \X DOMAIN registerBuiltins :
             /\ id.cond \in DOMAIN impliedBy
             /\ implied \in Range(impliedBy[id.cond])
             /\ <<id.subject, implied>> \in DOMAIN conditionToID}})]

\* Build: the graphs the code can produce for the program.
Build(prog) ==
  LET calls == buildFromStatements(prog, FALSE, 0) IN
  {buildImplicitEdges(g, c) :
     <<g, c>> \in UNION {{<<g, c>> : c \in Choices(ConditionToIDs(g.Nodes))} :
                           g \in {addGuarantees(NewGraph, calls, 1, r) :
                                    r \in Choices(RequiresLookups(calls))}}}

\* The sort order of sortQueue: priority descending, then ID ascending.
QueueLess(nodes, a, b) ==
  \/ nodes[a].Priority > nodes[b].Priority
  \/ nodes[a].Priority = nodes[b].Priority /\ IDLess(a, b)

\* sortQueue on the IDs in ids.
RECURSIVE sortQueue(_, _)
sortQueue(nodes, ids) ==
  IF ids = {} THEN <<>>
  ELSE LET m == CHOOSE a \in ids : \A b \in ids \ {a} : QueueLess(nodes, a, b)
       IN <<m>> \o sortQueue(nodes, ids \ {m})

\* The number of edges of g from a to b, and into b.
EdgeCount(g, a, b) ==
  BagCardinality([e \in {e \in BagToSet(g.Edges) : e.From = a /\ e.To = b} |->
                    CopiesIn(e, g.Edges)])

\* InDegree counting only the edge types the Edge struct's comment lists.
InDegreeListedTypes(g, b) ==
  BagCardinality([e \in {e \in BagToSet(g.Edges) :
                           e.To = b /\ e.Type \in {"requires", "after", "implies"}} |->
                    CopiesIn(e, g.Edges)])

InDegree(g, b) ==
  BagCardinality([e \in {e \in BagToSet(g.Edges) : e.To = b} |-> CopiesIn(e, g.Edges)])

\* The loop of TopoSort: the queue is sorted whenever a node is taken.
RECURSIVE kahn(_, _, _, _)
kahn(g, queue, inDegree, result) ==
  IF queue = <<>> THEN result
  ELSE LET node == Head(queue)
           dec == [id \in DOMAIN inDegree |-> inDegree[id] - EdgeCount(g, node, id)]
           ready == {id \in DOMAIN inDegree : inDegree[id] > 0 /\ dec[id] = 0}
       IN kahn(g, sortQueue(g.Nodes, Range(Tail(queue)) \cup ready), dec,
               Append(result, node))

\* TopoSort without the final length check.
TopoSortUnchecked(g) ==
  LET inDegree == [id \in DOMAIN g.Nodes |-> InDegree(g, id)]
  IN [sorted |-> kahn(g, sortQueue(g.Nodes, {id \in DOMAIN g.Nodes : inDegree[id] = 0}),
                      inDegree, <<>>),
      err |-> FALSE]

\* TopoSort: [sorted, err].
TopoSort(g) ==
  LET inDegree == [id \in DOMAIN g.Nodes |-> InDegree(g, id)]
      result == kahn(g, sortQueue(g.Nodes, {id \in DOMAIN g.Nodes : inDegree[id] = 0}),
                     inDegree, <<>>)
  IN IF Len(result) # Cardinality(DOMAIN g.Nodes)
     THEN [sorted |-> <<>>, err |-> TRUE]
     ELSE [sorted |-> result, err |-> FALSE]

----------------------------------------------------------------------------
(* pkg/planner *)

getDefaultHandler(condition) ==
  LET defaults ==
           ("exists" :> "fs.native") @@ ("readable" :> "fs.native")
        @@ ("writable" :> "fs.native") @@ ("encrypted" :> "AES:256")
        @@ ("permissions" :> "posix") @@ ("checksum" :> "fs.native")
        @@ ("content" :> "fs.native") @@ ("running" :> "process.native")
        @@ ("stopped" :> "process.native") @@ ("listening" :> "service.native")
        @@ ("healthy" :> "service.native") @@ ("reachable" :> "http.get")
        @@ ("status_code" :> "http.get") @@ ("tls" :> "http.get")
        @@ ("scheduled" :> "cron.native") @@ ("backed_up" :> "backup.native")
        @@ ("stable" :> "db.native")
  IN IF condition \in DOMAIN defaults THEN defaults[condition] ELSE ""

\* createStep without its test of stmt.Handler.
createStepDefaultHandler(guarantee, isInvariant) ==
  [ID |-> guarantee.ID,
   Statement |-> guarantee.Statement,
   Handler |-> getDefaultHandler(guarantee.Statement.cond),
   HandlerArgs |-> <<>>,
   IsInvariant |-> isInvariant]

createStep(guarantee, isInvariant) ==
  [ID |-> guarantee.ID,
   Statement |-> guarantee.Statement,
   Handler |-> IF guarantee.Statement.handler # NoHandler
               THEN guarantee.Statement.handler.name
               ELSE getDefaultHandler(guarantee.Statement.cond),
   HandlerArgs |-> IF guarantee.Statement.handler # NoHandler
                   THEN guarantee.Statement.handler.args
                   ELSE <<>>,
   IsInvariant |-> isInvariant]

\* extractGlobalViolationHandler: the handler of the program's first
\* on-violation block, nil if it has none.
RECURSIVE extractGlobalViolationHandler(_)
extractGlobalViolationHandler(stmts) ==
  IF stmts = <<>> THEN NoViolation
  ELSE IF Head(stmts).kind = "violation" THEN Head(stmts).violation
  ELSE extractGlobalViolationHandler(Tail(stmts))

\* Planner.CreatePlan: [steps, err]; on a TopoSort error no plan is returned.
CreatePlan(g) ==
  LET t == TopoSort(g)
  IN IF t.err THEN [steps |-> <<>>, err |-> TRUE]
     ELSE [steps |-> [i \in DOMAIN t.sorted |->
                        createStep(g.Nodes[t.sorted[i]], t.sorted[i] \in g.Invariants)],
           err |-> FALSE]

----------------------------------------------------------------------------
(* pkg/adapters: the files and the built-in handlers *)

\* A path of the filesystem: whether something is there, whether it is a
\* directory, and a file's bytes.
Absent == [exists |-> FALSE, isDir |-> FALSE, data |-> <<>>]

File(data) == [exists |-> TRUE, isDir |-> FALSE, data |-> data]

Directory == [exists |-> TRUE, isDir |-> TRUE, data |-> <<>>]

\* []byte(s)
Bytes(str) == IF str = "" THEN <<>> ELSE <<str>>

\* args[key] of a map[string]string: the value written last, "" if none.
RECURSIVE Arg(_, _)
Arg(args, key) ==
  IF args = <<>> THEN ""
  ELSE IF args[Len(args)][1] = key THEN args[Len(args)][2]
  ELSE Arg(SubSeq(args, 1, Len(args) - 1), key)

\* NewDefaultRegistry: the names of the registered handlers.
NewDefaultRegistry == {"fs.native", "posix", "AES:256", "http.get", "cron.native"}

MagicHeader == "ENSURA_AES256_V1"

\* The file starts with the magic header.
HasMagic(data) == Len(data) >= 1 /\ data[1] = MagicHeader

\* encrypt: nonce and ciphertext of the plaintext under the key.
encrypt(plaintext, key) == <<"gcm", key>> \o plaintext

\* hex.EncodeToString of the SHA-256 sum of the bytes.
RECURSIVE sha256Hex(_)
sha256Hex(data) ==
  IF data = <<>> THEN "sha256:" ELSE sha256Hex(SubSeq(data, 1, Len(data) - 1)) \o data[Len(data)] \o ";"

\* fs.Handler.Check: Success of the result.
fsCheck(fs, subject, condition, args) ==
  IF subject = NoRef THEN FALSE
  ELSE LET f == fs[subject.path] IN
    CASE condition = "exists" -> f.exists
      [] condition = "readable" -> f.exists
      [] condition = "writable" -> f.exists /\ ~f.isDir
      [] condition = "checksum" ->
           /\ Arg(args, "expected") # ""
           /\ f.exists /\ ~f.isDir
           /\ sha256Hex(f.data) = Arg(args, "expected")
      [] condition = "content" ->
           f.exists /\ ~f.isDir /\ f.data = Bytes(Arg(args, "expected"))
      [] OTHER -> FALSE

\* fs.Handler.Enforce: [error, fs], the files afterwards.
fsEnforce(fs, subject, condition, args) ==
  IF subject = NoRef THEN [error |-> TRUE, fs |-> fs]
  ELSE LET f == fs[subject.path] IN
    CASE condition = "exists" ->
           IF subject.rtype = "directory"
           THEN IF f.exists /\ ~f.isDir
                THEN [error |-> TRUE, fs |-> fs]
                ELSE [error |-> FALSE, fs |-> [fs EXCEPT ![subject.path] = Directory]]
           ELSE IF f.exists
                THEN [error |-> FALSE, fs |-> fs]
                ELSE [error |-> FALSE, fs |-> [fs EXCEPT ![subject.path] = File(<<>>)]]
      [] condition = "content" ->
           IF f.isDir
           THEN [error |-> TRUE, fs |-> fs]
           ELSE [error |-> FALSE,
                 fs |-> [fs EXCEPT ![subject.path] = File(Bytes(Arg(args, "content")))]]
      [] OTHER -> [error |-> TRUE, fs |-> fs]

\* aes.Handler.Check
aesCheck(fs, subject, condition, args) ==
  IF subject = NoRef THEN FALSE
  ELSE LET f == fs[subject.path] IN
    CASE condition = "encrypted" -> f.exists /\ ~f.isDir /\ HasMagic(f.data)
      [] OTHER -> FALSE

\* aes.Handler.Enforce; resolveKey fails on an empty key reference.
aesEnforce(fs, subject, condition, args) ==
  IF subject = NoRef THEN [error |-> TRUE, fs |-> fs]
  ELSE LET f == fs[subject.path] IN
    CASE condition = "encrypted" ->
           IF Arg(args, "key") = "" \/ ~f.exists \/ f.isDir
           THEN [error |-> TRUE, fs |-> fs]
           ELSE IF HasMagic(f.data)
           THEN [error |-> FALSE, fs |-> fs]
           ELSE [error |-> FALSE,
                 fs |-> [fs EXCEPT ![subject.path] =
                           File(<<MagicHeader>> \o encrypt(f.data, Arg(args, "key")))]]
      [] OTHER -> [error |-> TRUE, fs |-> fs]

\* Handler.Check of the step's handler; the run sources use the filesystem
\* and the AES handlers.
HandlerCheck(step, fs) ==
  CASE step.Handler = "fs.native" ->
         fsCheck(fs, step.Statement.subject, step.Statement.cond, step.HandlerArgs)
    [] step.Handler = "AES:256" ->
         aesCheck(fs, step.Statement.subject, step.Statement.cond, step.HandlerArgs)

\* Handler.Enforce of the step's handler.
HandlerEnforce(step, fs) ==
  CASE step.Handler = "fs.native" ->
         fsEnforce(fs, step.Statement.subject, step.Statement.cond, step.HandlerArgs)
    [] step.Handler = "AES:256" ->
         aesEnforce(fs, step.Statement.subject, step.Statement.cond, step.HandlerArgs)

----------------------------------------------------------------------------
(* pkg/runtime *)

\* DefaultConfig().MaxRetries, and the default of the run command's flag.
DefaultMaxRetries == 3

\* The loop of executeStep that attempts the repair: attempt counts the
\* iterations, attempts is result.Attempts.
RECURSIVE repairLoop(_, _, _, _, _)
repairLoop(step, fs, maxRetries, attempt, attempts) ==
  IF attempt >= maxRetries
  THEN [Status |-> "failed", Attempts |-> attempts, fs |-> fs]
  ELSE LET e == HandlerEnforce(step, fs) IN
       IF e.error
       THEN repairLoop(step, e.fs, maxRetries, attempt + 1, attempts + 1)
       ELSE IF HandlerCheck(step, e.fs)
       THEN [Status |-> "repaired", Attempts |-> attempts + 1, fs |-> e.fs]
       ELSE repairLoop(step, e.fs, maxRetries, attempt + 1, attempts + 1)

\* The retry count executeStep uses: the statement's handler, then the
\* plan's global handler, each only with a positive count, then the
\* configured count.
maxRetries(step, cfg, globalViolation) ==
  IF step.Statement.violation.present /\ step.Statement.violation.Retry > 0
  THEN step.Statement.violation.Retry
  ELSE IF globalViolation.present /\ globalViolation.Retry > 0
  THEN globalViolation.Retry
  ELSE cfg.MaxRetries

\* A variant that repairs a step whose check succeeded as well.
executeStepAlwaysRepair(step, fs, cfg, globalViolation) ==
  IF step.Handler \notin NewDefaultRegistry
  THEN [Status |-> "failed", Attempts |-> 0, fs |-> fs]
  ELSE IF cfg.DryRun
  THEN [Status |-> IF HandlerCheck(step, fs) THEN "satisfied" ELSE "violated",
        Attempts |-> 1, fs |-> fs]
  ELSE repairLoop(step, fs, maxRetries(step, cfg, globalViolation), 0, 1)

\* A variant that never repairs, whatever the configuration says.
executeStepNeverRepair(step, fs, cfg, globalViolation) ==
  IF step.Handler \notin NewDefaultRegistry
  THEN [Status |-> "failed", Attempts |-> 0, fs |-> fs]
  ELSE [Status |-> IF HandlerCheck(step, fs) THEN "satisfied" ELSE "violated",
        Attempts |-> 1, fs |-> fs]

\* executeStep: [Status, Attempts, fs]; globalViolation is the plan's
\* GlobalViolation.
executeStep(step, fs, cfg, globalViolation) ==
  IF step.Handler \notin NewDefaultRegistry
  THEN [Status |-> "failed", Attempts |-> 0, fs |-> fs]
  ELSE IF HandlerCheck(step, fs)
  THEN [Status |-> "satisfied", Attempts |-> 1, fs |-> fs]
  ELSE IF cfg.DryRun
  THEN [Status |-> "violated", Attempts |-> 1, fs |-> fs]
  ELSE repairLoop(step, fs, maxRetries(step, cfg, globalViolation), 0, 1)

----------------------------------------------------------------------------
(* cmd/ensura: loadAndCompile, one action per stage *)

VARIABLES
  source,   \* the source text; compilation never changes it
  program,  \* the AST the stages hand on
  stage,    \* "source", "parsed", "bound", "expanded", "checked", "built",
            \* "planned", "failed"
  err,      \* the stage whose errors made loadAndCompile return, or ""
  graph,    \* the dependency graph
  plan,     \* the steps of the plan
  round,    \* 1 in the first compilation of the source, 2 in the second
  first,    \* the outcome of the first compilation
  fs,       \* the files, by path
  config,   \* the Config of the Runtime, NoConfig before runtime.New
  pc,       \* the step runOnce executes next, 0 outside runOnce
  ctxDone,  \* the context of the pass in flight is cancelled
  viaCheck, \* the pass in flight was started by Check
  result,   \* the RunResult of the pass in flight
  results,  \* the RunResults returned so far
  drifts,   \* the number of changes made to the files from outside
  calls,    \* the calls of Run, RunOnce and Check in flight, by caller
  mu        \* the caller that holds the Runtime's mutex, 0 if none does

cvars == <<source, program, stage, err, graph, plan, round, first>>

\* The variables of a pass followed step by step by one caller.
pvars == <<pc, ctxDone, viaCheck, result, results, drifts>>

\* The variables of the calls several callers make.
xvars == <<calls, mu>>

rvars == <<fs, config, pvars, xvars>>

vars == <<cvars, rvars>>

Paths == {"f"}

NoConfig == [DryRun |-> FALSE, CheckOnly |-> FALSE, MaxRetries |-> -1]

\* The RunResult at the start of runOnce, with the number of outside changes
\* seen so far.
NewRunResult(d) ==
  [Steps |-> <<>>, allSatisfied |-> TRUE, TotalChecks |-> 0, TotalRepairs |-> 0,
   TotalFailures |-> 0, driftsAtStart |-> d, brokenAtStart |-> {},
   held |-> <<>>, works |-> <<>>, Attempts |-> <<>>]

\* The goroutines that call the Runtime.
Callers == 1..MaxCallers

\* A caller that has not called yet.  op is the method called and at the place
\* the call has reached; passes counts its calls of runOnce; Steps,
\* AllSatisfied and partial describe the RunResult of the last one, err what
\* Run returned; the other fields record where the call was when its context
\* was cancelled and what it did since.
NoCall ==
  [op |-> "none", at |-> "idle", ctxDone |-> FALSE, i |-> 0, attempt |-> 0,
   Steps |-> <<>>, AllSatisfied |-> FALSE, passes |-> 0,
   partial |-> FALSE, err |-> "", cancelAt |-> "", enforced |-> FALSE,
   startedAfterCancel |-> 0, lateEnforce |-> FALSE]

\* A goroutine that makes no call.
NoCaller == [NoCall EXCEPT !.at = "done"]

NoRuntime ==
  /\ mu = 0
  /\ fs = [p \in Paths |-> Absent]
  /\ config = NoConfig
  /\ pc = 0
  /\ ctxDone = FALSE
  /\ viaCheck = FALSE
  /\ result = NewRunResult(0)
  /\ results = <<>>
  /\ drifts = 0

NoOutcome == [stage |-> "", err |-> "", plan |-> <<>>]

NotCompiled ==
  /\ program = <<>>
  /\ stage = "source"
  /\ err = ""
  /\ graph = NewGraph
  /\ plan = <<>>
  /\ round = 1
  /\ first = NoOutcome

Init ==
  /\ source \in Sources
  /\ NotCompiled
  /\ NoRuntime
  /\ calls = [c \in Callers |-> NoCall]

Fail(why) ==
  /\ stage' = "failed"
  /\ err' = why

Parse ==
  /\ stage = "source"
  /\ LET p == ParseString(source) IN
       IF p.errors > 0 THEN Fail("parsing") /\ program' = program
                       ELSE stage' = "parsed" /\ err' = err /\ program' = p.program
  /\ UNCHANGED <<source, graph, plan, round, first, rvars>>

\* Binder.Bind and, if it reports no error, Binder.ExpandPolicies.
Bind ==
  /\ stage = "parsed"
  /\ LET b == BindProgram(program) IN
       IF b.errors > 0 THEN Fail("binding") /\ program' = b.stmts
       ELSE /\ stage' = "bound"
            /\ err' = err
            /\ program' = ExpandPolicies(b.stmts)
  /\ UNCHANGED <<source, graph, plan, round, first, rvars>>

ExpandImplications ==
  /\ stage = "bound"
  /\ LET e == Expand(program) IN
       /\ program' = e.stmts
       /\ IF e.errors > 0 THEN Fail("expansion")
                          ELSE stage' = "expanded" /\ err' = err
  /\ UNCHANGED <<source, graph, plan, round, first, rvars>>

ConflictCheck ==
  /\ stage = "expanded"
  /\ IF CheckConflicts(program) # {} THEN Fail("conflict")
                                     ELSE stage' = "checked" /\ err' = err
  /\ UNCHANGED <<source, program, graph, plan, round, first, rvars>>

BuildGraph ==
  /\ stage = "checked"
  /\ graph' \in Build(program)
  /\ stage' = "built"
  /\ UNCHANGED <<source, program, err, plan, round, first, rvars>>

Plan ==
  /\ stage = "built"
  /\ LET p == CreatePlan(graph) IN
       /\ plan' = p.steps
       /\ IF p.err THEN Fail("planning")
                   ELSE stage' = "planned" /\ err' = err
  /\ UNCHANGED <<source, program, graph, round, first, rvars>>

\* loadAndCompile is called again on the same source file.
Recompile ==
  /\ stage \in {"planned", "failed"}
  /\ round = 1
  /\ round' = 2
  /\ first' = [stage |-> stage, err |-> err, plan |-> plan]
  /\ program' = <<>>
  /\ stage' = "source"
  /\ err' = ""
  /\ graph' = NewGraph
  /\ plan' = <<>>
  /\ UNCHANGED <<source, rvars>>

Next == Parse \/ Bind \/ ExpandImplications \/ ConflictCheck \/ BuildGraph \/ Plan

Spec == Init /\ [][Next]_vars

\* The compilation of the programs that declare and apply a policy.
InitPolicy ==
  /\ source \in PolicySources
  /\ NotCompiled
  /\ NoRuntime
  /\ calls = [c \in Callers |-> NoCall]

SpecPolicy == InitPolicy /\ [][Next]_vars

\* The compilation of the programs with guards and assumptions.
InitGuard ==
  /\ source \in GuardSources
  /\ NotCompiled
  /\ NoRuntime
  /\ calls = [c \in Callers |-> NoCall]

SpecGuard == InitGuard /\ [][Next]_vars

\* The compilation of the programs with a statement after an on-block.
InitScope ==
  /\ source \in ScopeSources
  /\ NotCompiled
  /\ NoRuntime
  /\ calls = [c \in Callers |-> NoCall]

SpecScope == InitScope /\ [][Next]_vars

\* The compilation of the programs that name a resource by its alias.
InitAlias ==
  /\ source \in AliasSources
  /\ NotCompiled
  /\ NoRuntime
  /\ calls = [c \in Callers |-> NoCall]

SpecAlias == InitAlias /\ [][Next]_vars

\* The compilation of the programs of for-each loops.
InitForEach ==
  /\ source \in ForEachSources
  /\ NotCompiled
  /\ NoRuntime
  /\ calls = [c \in Callers |-> NoCall]

SpecForEach == InitForEach /\ [][Next]_vars

\* The compilation of the programs with per-statement on-violation blocks.
InitHandler ==
  /\ source \in HandlerSources
  /\ NotCompiled
  /\ NoRuntime
  /\ calls = [c \in Callers |-> NoCall]

SpecHandler == InitHandler /\ [][Next]_vars

\* The compilation of the programs of NodeSources.
InitNode ==
  /\ source \in NodeSources
  /\ NotCompiled
  /\ NoRuntime
  /\ calls = [c \in Callers |-> NoCall]

SpecNode == InitNode /\ [][Next]_vars

\* The compilation of the programs of ExplicitSources.
InitExplicit ==
  /\ source \in ExplicitSources
  /\ NotCompiled
  /\ NoRuntime
  /\ calls = [c \in Callers |-> NoCall]

SpecExplicit == InitExplicit /\ [][Next]_vars

NextTwice == Next \/ Recompile

SpecTwice == Init /\ [][NextTwice]_vars

----------------------------------------------------------------------------
(* cmd/ensura run and check: the runtime on the compiled plan *)

\* The files the runtime may find.
Files == {Absent, File(<<>>), File(<<"B">>)}

\* The configurations the run and the check command build.
Configs ==
  {[DryRun |-> FALSE, CheckOnly |-> FALSE, MaxRetries |-> DefaultMaxRetries],
   [DryRun |-> TRUE, CheckOnly |-> TRUE, MaxRetries |-> 0]}

\* Every step's check succeeds on the files.
Settled(steps, files) ==
  \A i \in DOMAIN steps :
    steps[i].Handler \in NewDefaultRegistry /\ HandlerCheck(steps[i], files)

\* The step's handler is registered and its Check succeeds on the files.
CheckHolds(step, files) ==
  step.Handler \in NewDefaultRegistry /\ HandlerCheck(step, files)

\* The step's handler is registered, and its Enforce on the files succeeds
\* and leaves files on which its Check succeeds.
EnforceRestores(step, files) ==
  /\ step.Handler \in NewDefaultRegistry
  /\ LET e == HandlerEnforce(step, files) IN
       ~e.error /\ HandlerCheck(step, e.fs)

\* The steps whose check fails on the files.
Broken(steps, files) == {i \in DOMAIN steps : ~CheckHolds(steps[i], files)}

\* runtime.New on the plan loadAndCompile returned.
New ==
  /\ stage = "planned"
  /\ config = NoConfig
  /\ config' \in Configs
  /\ fs' \in [Paths -> Files]
  /\ UNCHANGED <<cvars, xvars, pc, ctxDone, viaCheck, result, results, drifts>>

\* plan.GlobalViolation: CreatePlan extracts it from the program it planned.
GlobalViolation == extractGlobalViolationHandler(program)

\* The return of runOnce, and of Check around it: the RunResult, with what
\* the pass ran under.
Return(res, allSatisfied, files) ==
  /\ results' = Append(results,
        [Steps |-> res.Steps, AllSatisfied |-> allSatisfied,
         TotalChecks |-> res.TotalChecks, TotalRepairs |-> res.TotalRepairs,
         TotalFailures |-> res.TotalFailures,
         DryRun |-> config.DryRun, MaxRetries |-> config.MaxRetries,
         ctxDone |-> ctxDone,
         driftsAtStart |-> res.driftsAtStart, driftsAtEnd |-> drifts,
         settled |-> Settled(plan, files),
         brokenAtStart |-> res.brokenAtStart,
         brokenAtEnd |-> Broken(plan, files),
         held |-> res.held, works |-> res.works, Attempts |-> res.Attempts])
  /\ pc' = 0
  /\ config' = IF viaCheck THEN [config EXCEPT !.DryRun = FALSE] ELSE config

\* A call of runOnce, under a context not cancelled yet.
RunOnce ==
  /\ config # NoConfig
  /\ pc = 0
  /\ Len(results) < MaxPasses
  /\ plan # <<>>
  /\ pc' = 1
  /\ ctxDone' = FALSE
  /\ viaCheck' = FALSE
  /\ result' = [NewRunResult(drifts) EXCEPT !.brokenAtStart = Broken(plan, fs)]
  /\ UNCHANGED <<cvars, xvars, fs, config, results, drifts>>

\* A call of Check: DryRun is set before runOnce and reset on return.
Check ==
  /\ config # NoConfig
  /\ pc = 0
  /\ Len(results) < MaxPasses
  /\ plan # <<>>
  /\ pc' = 1
  /\ ctxDone' = FALSE
  /\ viaCheck' = TRUE
  /\ config' = [config EXCEPT !.DryRun = TRUE]
  /\ result' = [NewRunResult(drifts) EXCEPT !.brokenAtStart = Broken(plan, fs)]
  /\ UNCHANGED <<cvars, xvars, fs, results, drifts>>

\* A variant of the loop that returns at the first step that is not
\* satisfied or repaired.
ExecuteStepStopOnFailure ==
  /\ pc \in 1..Len(plan)
  /\ \E r \in {executeStep(plan[pc], fs, config, GlobalViolation)} :
     \E res \in {[result EXCEPT
                   !.Steps = Append(@, r.Status),
                   !.Attempts = Append(@, r.Attempts),
                   !.held = Append(@, CheckHolds(plan[pc], fs)),
                   !.works = Append(@, EnforceRestores(plan[pc], fs)),
                   !.TotalChecks = @ + 1,
                   !.TotalRepairs = IF r.Status = "repaired" THEN @ + 1 ELSE @,
                   !.TotalFailures = IF r.Status \in {"violated", "failed"} THEN @ + 1 ELSE @,
                   !.allSatisfied = @ /\ r.Status \notin {"violated", "failed"}]} :
        /\ fs' = r.fs
        /\ result' = res
        /\ IF ctxDone \/ r.Status \in {"violated", "failed"}
           THEN Return(res, FALSE, r.fs)
           ELSE IF pc = Len(plan) THEN Return(res, res.allSatisfied, r.fs)
           ELSE pc' = pc + 1 /\ UNCHANGED <<results, config>>
  /\ UNCHANGED <<cvars, xvars, ctxDone, viaCheck, drifts>>

\* One iteration of runOnce's loop over the steps, and the return after the
\* last step or on a cancelled context.
ExecuteStep ==
  /\ pc \in 1..Len(plan)
  /\ \E r \in {executeStep(plan[pc], fs, config, GlobalViolation)} :
     \E res \in {[result EXCEPT
                   !.Steps = Append(@, r.Status),
                   !.Attempts = Append(@, r.Attempts),
                   !.held = Append(@, CheckHolds(plan[pc], fs)),
                   !.works = Append(@, EnforceRestores(plan[pc], fs)),
                   !.TotalChecks = @ + 1,
                   !.TotalRepairs = IF r.Status = "repaired" THEN @ + 1 ELSE @,
                   !.TotalFailures = IF r.Status \in {"violated", "failed"} THEN @ + 1 ELSE @,
                   !.allSatisfied = @ /\ r.Status \notin {"violated", "failed"}]} :
        /\ fs' = r.fs
        /\ result' = res
        /\ IF ctxDone THEN Return(res, FALSE, r.fs)
           ELSE IF pc = Len(plan) THEN Return(res, res.allSatisfied, r.fs)
           ELSE pc' = pc + 1 /\ UNCHANGED <<results, config>>
  /\ UNCHANGED <<cvars, xvars, ctxDone, viaCheck, drifts>>

\* The context of the pass in flight is cancelled.
Cancel ==
  /\ pc > 0
  /\ ~ctxDone
  /\ ctxDone' = TRUE
  /\ UNCHANGED <<cvars, xvars, fs, config, pc, viaCheck, result, results, drifts>>

\* Something other than the runtime changes a file between two passes.
Drift ==
  /\ config # NoConfig
  /\ pc = 0
  /\ Len(results) \in 1..(MaxPasses - 1)
  /\ drifts < MaxDrift
  /\ \E p \in Paths, f \in Files :
       /\ f # fs[p]
       /\ fs' = [fs EXCEPT ![p] = f]
  /\ drifts' = drifts + 1
  /\ UNCHANGED <<cvars, xvars, config, pc, ctxDone, viaCheck, result, results>>

InitRun ==
  /\ source \in RunSources
  /\ NotCompiled
  /\ NoRuntime
  /\ calls = [c \in Callers |-> NoCall]

NextRun == Next \/ New \/ RunOnce \/ Check \/ ExecuteStep \/ Cancel \/ Drift

SpecRun == InitRun /\ [][NextRun]_vars

\* The runtime on the programs with on-violation blocks.
InitRetry ==
  /\ source \in RetrySources
  /\ NotCompiled
  /\ NoRuntime
  /\ calls = [c \in Callers |-> NoCall]

SpecRetry == InitRetry /\ [][NextRun]_vars

----------------------------------------------------------------------------
(* pkg/runtime: Run, RunOnce and Check called by several goroutines *)

\* The program of the callers: a content guarantee no repair achieves, which
\* implies an exists guarantee a repair does achieve.
CallEntries ==
  [cond : {"content"}, subject : {InlineRef("file", "f")}, scope : {"top"},
   clause : {NoClause},
   handler : {HandlerSpec("fs.native", <<<<"content", "A">>>>)}]

CallSources == [{1} -> CallEntries]

\* The configurations of the run and the check command, and a Config of a
\* caller of the package that asks for one pass.
CallConfigs ==
  Configs \cup {[DryRun |-> FALSE, CheckOnly |-> TRUE, MaxRetries |-> DefaultMaxRetries]}

\* runtime.New with any of these configurations.
NewWithConfig ==
  /\ stage = "planned"
  /\ config = NoConfig
  /\ config' \in CallConfigs
  /\ fs' \in [Paths -> {Absent}]
  /\ UNCHANGED <<cvars, pvars, xvars>>

\* A goroutine calls Run: in CheckOnly mode Run calls runOnce at once,
\* otherwise it enters its loop.
CallRun ==
  \E c \in Callers :
    /\ config # NoConfig
    /\ calls[c].at = "idle"
    /\ calls' = [calls EXCEPT ![c] =
                   [@ EXCEPT !.op = "Run",
                             !.at = IF config.CheckOnly THEN "lock" ELSE "top",
                             !.passes = IF config.CheckOnly THEN 1 ELSE 0]]
    /\ UNCHANGED <<cvars, fs, config, pvars, mu>>

\* A goroutine calls RunOnce.
CallRunOnce ==
  \E c \in Callers :
    /\ config # NoConfig
    /\ calls[c].at = "idle"
    /\ calls' = [calls EXCEPT ![c] = [@ EXCEPT !.op = "RunOnce", !.at = "lock", !.passes = 1]]
    /\ UNCHANGED <<cvars, fs, config, pvars, mu>>

\* A goroutine calls Check, which sets DryRun before runOnce takes the mutex.
CallCheck ==
  \E c \in Callers :
    /\ config # NoConfig
    /\ calls[c].at = "idle"
    /\ calls' = [calls EXCEPT ![c] = [@ EXCEPT !.op = "Check", !.at = "lock", !.passes = 1]]
    /\ config' = [config EXCEPT !.DryRun = TRUE]
    /\ UNCHANGED <<cvars, fs, pvars, mu>>

\* The context of a call is cancelled.
CancelCall ==
  \E c \in Callers :
    /\ calls[c].op # "none"
    /\ calls[c].at # "done"
    /\ ~calls[c].ctxDone
    /\ calls' = [calls EXCEPT ![c] =
                   [@ EXCEPT !.ctxDone = TRUE,
                             !.cancelAt = IF calls[c].at \in {"retry", "sleep"}
                                          THEN calls[c].at ELSE ""]]
    /\ UNCHANGED <<cvars, fs, config, pvars, mu>>

\* A variant of the select that never looks at the context.
RunSelectDefault ==
  \E c \in Callers :
    /\ calls[c].at = "top"
    /\ calls' = [calls EXCEPT ![c] =
                   [@ EXCEPT !.at = "lock", !.passes = @ + 1]]
    /\ UNCHANGED <<cvars, fs, config, pvars, mu>>

\* The select at the top of Run's loop: return ctx.Err() on a cancelled
\* context, otherwise call runOnce.
RunSelect ==
  \E c \in Callers :
    /\ calls[c].at = "top"
    /\ calls' = [calls EXCEPT ![c] =
                   IF calls[c].ctxDone
                   THEN [@ EXCEPT !.at = "done", !.err = "canceled"]
                   ELSE [@ EXCEPT !.at = "lock", !.passes = @ + 1]]
    /\ UNCHANGED <<cvars, fs, config, pvars, mu>>

\* A variant of Lock that does not wait for the mutex.
LockNoWait ==
  \E c \in Callers :
    /\ calls[c].at = "lock"
    /\ plan # <<>>
    /\ mu' = c
    /\ calls' = [calls EXCEPT ![c] =
                   [@ EXCEPT !.at = "step", !.i = 1, !.attempt = 0, !.Steps = <<>>]]
    /\ UNCHANGED <<cvars, fs, config, pvars>>

\* r.mu.Lock() at the start of runOnce, and the start of the loop over the
\* steps.
Lock ==
  \E c \in Callers :
    /\ calls[c].at = "lock"
    /\ plan # <<>>
    /\ mu = 0
    /\ mu' = c
    /\ calls' = [calls EXCEPT ![c] =
                   [@ EXCEPT !.at = "step", !.i = 1, !.attempt = 0, !.Steps = <<>>]]
    /\ UNCHANGED <<cvars, fs, config, pvars>>

\* The return of runOnce to its caller with the deferred Unlock: RunOnce
\* returns, Check goes on to its deferred reset, Run returns in CheckOnly
\* mode and waits for the next interval otherwise.
ReturnPass(c, k, steps, allSatisfied) ==
  /\ mu' = 0
  /\ calls' = [calls EXCEPT ![c] =
       [k EXCEPT !.Steps = steps, !.AllSatisfied = allSatisfied,
                 !.partial = k.ctxDone,
                 !.i = 0, !.attempt = 0,
                 !.cancelAt = IF @ = "retry" THEN "" ELSE @,
                 !.at = CASE k.op = "RunOnce" -> "done"
                          [] k.op = "Check" -> "reset"
                          [] k.op = "Run" -> IF config.CheckOnly THEN "done" ELSE "sleep",
                 !.err = IF k.op = "Run" /\ config.CheckOnly
                         THEN IF allSatisfied THEN "nil" ELSE "unsatisfied"
                         ELSE ""]]

\* The end of one iteration of runOnce's loop: the step's result is appended,
\* and the pass returns on a cancelled context or after the last step.
FinishStep(c, k, status, files) ==
  LET steps == Append(k.Steps, status) IN
  /\ fs' = files
  /\ IF k.ctxDone
     THEN ReturnPass(c, k, steps, FALSE)
     ELSE IF k.i = Len(plan)
     THEN ReturnPass(c, k, steps,
                     \A j \in DOMAIN steps : steps[j] \notin {"violated", "failed"})
     ELSE /\ calls' = [calls EXCEPT ![c] =
                         [k EXCEPT !.Steps = steps, !.i = @ + 1, !.attempt = 0,
                                   !.at = "step"]]
          /\ mu' = mu

\* executeStep up to its retry loop: the handler lookup, the check and the
\* test of DryRun.
StepCheck ==
  \E c \in Callers :
    /\ calls[c].at = "step"
    /\ LET step == plan[calls[c].i]
           k == [calls[c] EXCEPT
                   !.startedAfterCancel = IF calls[c].ctxDone THEN @ + 1 ELSE @]
       IN IF step.Handler \notin NewDefaultRegistry
          THEN FinishStep(c, k, "failed", fs)
          ELSE IF HandlerCheck(step, fs)
          THEN FinishStep(c, k, "satisfied", fs)
          ELSE IF config.DryRun
          THEN FinishStep(c, k, "violated", fs)
          ELSE IF maxRetries(step, config, GlobalViolation) <= 0
          THEN FinishStep(c, k, "failed", fs)
          ELSE /\ calls' = [calls EXCEPT ![c] = [k EXCEPT !.at = "retry"]]
               /\ UNCHANGED <<fs, mu>>
    /\ UNCHANGED <<cvars, config, pvars>>

\* One iteration of executeStep's retry loop: Enforce and, if it returned no
\* error, the check again.  lateEnforce records an attempt that follows a
\* failed one although the context was cancelled inside the loop.
StepEnforce ==
  \E c \in Callers :
    /\ calls[c].at = "retry"
    /\ LET step == plan[calls[c].i]
           e == HandlerEnforce(step, fs)
           k == [calls[c] EXCEPT
                   !.enforced = TRUE,
                   !.lateEnforce = @ \/ /\ calls[c].ctxDone
                                         /\ calls[c].cancelAt = "retry"
                                         /\ calls[c].attempt >= 1]
       IN IF ~e.error /\ HandlerCheck(step, e.fs)
          THEN FinishStep(c, k, "repaired", e.fs)
          ELSE IF k.attempt + 1 >= maxRetries(step, config, GlobalViolation)
          THEN FinishStep(c, k, "failed", e.fs)
          ELSE /\ calls' = [calls EXCEPT ![c] = [k EXCEPT !.attempt = @ + 1]]
               /\ fs' = e.fs
               /\ mu' = mu
    /\ UNCHANGED <<cvars, config, pvars>>

\* Check's deferred reset of DryRun, after runOnce returned.
DeferredReset ==
  \E c \in Callers :
    /\ calls[c].at = "reset"
    /\ config' = [config EXCEPT !.DryRun = FALSE]
    /\ calls' = [calls EXCEPT ![c] = [@ EXCEPT !.at = "done"]]
    /\ UNCHANGED <<cvars, fs, pvars, mu>>

\* Run's select between two passes takes the case of the cancelled context.
SleepCancelled ==
  \E c \in Callers :
    /\ calls[c].at = "sleep"
    /\ calls[c].ctxDone
    /\ calls' = [calls EXCEPT ![c] = [@ EXCEPT !.at = "done", !.err = "canceled"]]
    /\ UNCHANGED <<cvars, fs, config, pvars, mu>>

\* Run's select between two passes takes the case of time.After.
TimerFires ==
  \E c \in Callers :
    /\ calls[c].at = "sleep"
    /\ calls[c].passes < MaxPasses
    /\ calls' = [calls EXCEPT ![c] = [@ EXCEPT !.at = "top"]]
    /\ UNCHANGED <<cvars, fs, config, pvars, mu>>

InitCalls ==
  /\ source \in CallSources
  /\ NotCompiled
  /\ NoRuntime
  /\ calls = [c \in Callers |-> NoCall]

NextCalls ==
  \/ Next \/ NewWithConfig \/ CallRun \/ CallRunOnce \/ CallCheck \/ CancelCall
  \/ RunSelect \/ Lock \/ StepCheck \/ StepEnforce \/ DeferredReset
  \/ SleepCancelled \/ TimerFires

SpecCalls == InitCalls /\ [][NextCalls]_vars

\* One goroutine uses the Runtime; the others make no call.
InitLoop ==
  /\ source \in CallSources
  /\ NotCompiled
  /\ NoRuntime
  /\ calls = [c \in Callers |-> IF c = 1 THEN NoCall ELSE NoCaller]

\* A goroutine that can run does run, the mutex is acquired once it is free,
\* every handler call returns, and a select with a ready case takes one; the
\* timer of the interval need never fire.
Fairness ==
  /\ WF_vars(RunSelect)
  /\ SF_vars(Lock)
  /\ WF_vars(StepCheck)
  /\ WF_vars(StepEnforce)
  /\ WF_vars(SleepCancelled)

SpecLoop == InitLoop /\ [][NextCalls]_vars /\ Fairness

----------------------------------------------------------------------------
(* Properties of the compilation pipeline *)

\* The index of the step with this ID (IDs are the keys of g.Nodes, so a
\* plan has one step per ID).
StepOf(id) == CHOOSE i \in DOMAIN plan : plan[i].ID = id

SameSubject(a, b) == a.ID.subject = b.ID.subject

ImpliesOf(c) == IF Known(c) THEN Range(registerBuiltins[c].Implies) ELSE {}

ConflictsOf(c) == IF Known(c) THEN Range(registerBuiltins[c].Conflicts) ELSE {}

\* The nodes reachable from the nodes in from by one or more edges.
Successors(g, from) == {e.To : e \in {e \in BagToSet(g.Edges) : e.From \in from}}

RECURSIVE ReachableFrom(_, _)
ReachableFrom(g, seen) ==
  LET more == seen \cup Successors(g, seen)
  IN IF more = seen THEN seen ELSE ReachableFrom(g, more)

OnCycle(g, id) == id \in ReachableFrom(g, Successors(g, {id}))

HasCycle(g) == \E id \in DOMAIN g.Nodes : OnCycle(g, id)

\* Every ensure statement of a program, inside blocks or not.
RECURSIVE EnsuresIn(_)
EnsuresIn(stmts) ==
  IF stmts = <<>> THEN <<>>
  ELSE (IF Head(stmts).kind = "ensure" THEN <<Head(stmts)>> ELSE EnsuresIn(Head(stmts).body))
         \o EnsuresIn(Tail(stmts))

\* Two ensure statements of one subject whose conditions conflict.
HasConflictPair(prog) ==
  LET es == EnsuresIn(prog)
  IN \E i, j \in DOMAIN es :
       /\ SubjectStr(es[i].subject) = SubjectStr(es[j].subject)
       /\ es[j].cond \in ConflictsOf(es[i].cond)

\* C1: in every plan, for every edge (P -> S) of the dependency graph, of
\* any kind, step P comes before step S.
C1_EdgesRespected ==
  stage = "planned" =>
    \A e \in BagToSet(graph.Edges) : StepOf(e.From) < StepOf(e.To)

\* A plan whose graph has an after edge and an implies edge.
C1_Witness ==
  /\ stage = "planned"
  /\ \E e \in BagToSet(graph.Edges) : e.Type = "after"
  /\ \E e \in BagToSet(graph.Edges) : e.Type = "implies"

\* C2: compiling the same source twice yields the same outcome: the same
\* steps in the same order with the same handlers and arguments.
C2_Deterministic ==
  (round = 2 /\ stage \in {"planned", "failed"}) =>
    [stage |-> stage, err |-> err, plan |-> plan] = first

\* C3: a plan has at most one step for every (condition, subject) pair.
C3_AtMostOneStep ==
  stage = "planned" =>
    \A i, j \in DOMAIN plan :
      (plan[i].ID.cond = plan[j].ID.cond /\ SameSubject(plan[i], plan[j])) => i = j

\* C4: if a plan has a step for condition C on subject X, it has a step on X
\* for every condition the registry lists in implies(C).
C4_ImplicationClosure ==
  stage = "planned" =>
    \A i \in DOMAIN plan : \A d \in ImpliesOf(plan[i].ID.cond) :
      \E j \in DOMAIN plan : plan[j].ID.cond = d /\ SameSubject(plan[i], plan[j])

\* A plan with a step for encrypted, whose implied conditions imply others.
C4_Witness ==
  /\ stage = "planned"
  /\ \E i \in DOMAIN plan : plan[i].ID.cond = "encrypted"
  /\ Cardinality({plan[i].ID.subject : i \in DOMAIN plan}) = 2

\* C5: for two steps A and B of a plan on the same subject, with A's
\* condition in the registry's implies list of B's condition, A comes first.
C5_ImpliedFirst ==
  stage = "planned" =>
    \A a, b \in DOMAIN plan :
      (SameSubject(plan[a], plan[b]) /\ plan[a].ID.cond \in ImpliesOf(plan[b].ID.cond))
        => a < b

\* C6: an expanded program that has, for one subject, ensures for two
\* conflicting conditions never passes the conflict check: compilation ends
\* with the conflict error and without a plan, and no plan has two steps of
\* one subject with conflicting conditions.
C6_ConflictExclusion ==
  /\ (stage \in {"checked", "built", "planned"}) => ~HasConflictPair(program)
  /\ (stage = "failed" /\ err = "conflict") => plan = <<>>
  /\ stage = "planned" =>
       \A i, j \in DOMAIN plan :
         SameSubject(plan[i], plan[j]) => plan[j].ID.cond \notin ConflictsOf(plan[i].ID.cond)

\* Compilation ended with the conflict error for a program whose conflicting
\* ensures are in a block.
C6_Witness ==
  /\ stage = "failed"
  /\ err = "conflict"
  /\ HasConflictPair(program)
  /\ \E i \in DOMAIN program : program[i].kind = "on"

\* C7: if the dependency graph has a cycle (a self-loop included), planning
\* returns an error and no plan.
C7_CycleIsError ==
  (stage \in {"planned", "failed"} /\ HasCycle(graph)) =>
    (stage = "failed" /\ err = "planning" /\ plan = <<>>)

\* Planning failed on a cycle through two nodes.
C7_Witness ==
  /\ stage = "failed"
  /\ err = "planning"
  /\ \E a, b \in DOMAIN graph.Nodes :
       a # b /\ b \in ReachableFrom(graph, Successors(graph, {a}))
             /\ a \in ReachableFrom(graph, Successors(graph, {b}))

\* C8: the plan honours every ordering clause: for a step X with requires C,
\* the steps for C on X's subject come before X; with after R, every step
\* whose subject is R comes before X; with before R, X comes before every
\* step whose subject is R.
C8_ClausesHonoured ==
  stage = "planned" =>
    \A x, y \in DOMAIN plan :
      LET X == plan[x].Statement
          Y == plan[y].Statement
      IN /\ (Y.cond \in Range(X.requires) /\ SameSubject(plan[x], plan[y])) => y < x
         /\ (\E r \in Range(X.after) : RefString(r) = plan[y].ID.subject) => y < x
         /\ (\E r \in Range(X.before) : RefString(r) = plan[y].ID.subject) => x < y

\* Two ensure statements of the source, on one subject, each naming the
\* other's condition in a requires clause.
CrossRequires(prog) ==
  LET es == EnsuresIn(prog)
  IN \E i, j \in DOMAIN es :
       /\ i # j
       /\ SubjectStr(es[i].subject) = SubjectStr(es[j].subject)
       /\ es[j].cond \in Range(es[i].requires)
       /\ es[i].cond \in Range(es[j].requires)

\* C9: a program with two ensure statements on one subject that require
\* each other's condition fails planning, and no plan is produced.
C9_CrossRequiresFail ==
  (stage \in {"planned", "failed"} /\ CrossRequires(BindProgram(ParseString(source).program).stmts)) =>
    (stage = "failed" /\ err = "planning" /\ plan = <<>>)

----------------------------------------------------------------------------
(* Properties of the runtime *)

\* Pass k + 1 follows a non-dry pass k that returned AllSatisfied, and the
\* files were not changed from outside since pass k began.
FollowsSatisfiedPass(k) ==
  /\ k \in 1..(Len(results) - 1)
  /\ ~results[k].DryRun
  /\ results[k].AllSatisfied
  /\ results[k + 1].driftsAtEnd = results[k].driftsAtStart

Idempotent(k) ==
  results[k + 1].AllSatisfied /\ results[k + 1].TotalRepairs = 0

\* C10 as stated: if a non-dry runOnce returns AllSatisfied = true, a
\* following runOnce with no external state change in between also returns
\* AllSatisfied = true with TotalRepairs = 0.
C10_IdempotentAsStated ==
  \A k \in 1..MaxPasses : FollowsSatisfiedPass(k) => Idempotent(k)

\* C10, amended: if a non-dry runOnce returns AllSatisfied = true and every
\* step's condition still holds when it returns (no repair of the pass undid
\* what another step checks), a following runOnce whose context is not
\* cancelled, with no external state change in between, also returns
\* AllSatisfied = true with TotalRepairs = 0.
C10_IdempotentWhenSettled ==
  \A k \in 1..MaxPasses :
    (FollowsSatisfiedPass(k) /\ results[k].settled /\ ~results[k + 1].ctxDone)
      => Idempotent(k)

\* A pass that repaired something and left every condition holding is
\* followed by a non-dry pass that finds nothing to repair.
C10_Witness ==
  \E k \in 1..MaxPasses :
    /\ FollowsSatisfiedPass(k)
    /\ results[k].settled
    /\ results[k].TotalRepairs > 0
    /\ ~results[k + 1].ctxDone
    /\ ~results[k + 1].DryRun
    /\ Idempotent(k)

\* Step i was satisfied in pass k and its condition held when the pass
\* returned; the files were then changed from outside, and the condition is
\* broken when pass k + 1 starts.
BrokenExternally(k, i) ==
  /\ k \in 1..(Len(results) - 1)
  /\ i \in 1..Len(results[k].Steps)
  /\ results[k].Steps[i] \in {"satisfied", "repaired"}
  /\ i \notin results[k].brokenAtEnd
  /\ results[k + 1].driftsAtStart > results[k].driftsAtEnd
  /\ i \in results[k + 1].brokenAtStart

\* Pass k is not a dry run and ran step i with a retry budget of at least
\* one, under a handler whose enforce restores the condition.
CanRepair(k, i) ==
  /\ ~results[k].DryRun
  /\ results[k].MaxRetries >= 1
  /\ i \in 1..Len(results[k].Steps)
  /\ results[k].works[i]

\* Pass k found step i's condition broken and reports it repaired; pass k + 1
\* ran the step as well, and nothing changed the files from outside between
\* the start of pass k and the return of pass k + 1.
RepairedThenRerun(k, i) ==
  /\ k \in 1..(Len(results) - 1)
  /\ i \in 1..Len(results[k + 1].Steps)
  /\ i \in 1..Len(results[k].Steps)
  /\ i \in results[k].brokenAtStart
  /\ results[k].Steps[i] = "repaired"
  /\ results[k + 1].driftsAtEnd = results[k].driftsAtStart

C11_WitnessRerun ==
  \E k \in 1..MaxPasses : \E i \in DOMAIN plan :
    /\ RepairedThenRerun(k, i)
    /\ results[k].settled
    /\ results[k + 1].Steps[i] = "satisfied"

\* The retry budget as documented: the statement's violation handler's retry
\* count if the statement has a handler, otherwise the global handler's if
\* the program has one, otherwise the configured count.
StatedBudget(step, configured) ==
  IF step.Statement.violation.present THEN step.Statement.violation.Retry
  ELSE IF GlobalViolation.present THEN GlobalViolation.Retry
  ELSE configured

\* Pass k, not a dry run, found step i violated and no repair succeeded.
RepairNeverSucceeds(k, i) ==
  /\ k \in 1..Len(results)
  /\ i \in 1..Len(results[k].Steps)
  /\ ~results[k].DryRun
  /\ plan[i].Handler \in NewDefaultRegistry
  /\ ~results[k].held[i]
  /\ results[k].Steps[i] # "repaired"

\* C12: for a violated step whose repair never succeeds, the number of
\* enforce attempts in one pass equals the effective retry budget (the
\* statement's violation handler's retry count if it has one, otherwise the
\* global handler's if the program has one, otherwise config.MaxRetries), and
\* the step is then marked Failed.
C12_RetryBudget ==
  \A k \in 1..MaxPasses : \A i \in DOMAIN plan :
    RepairNeverSucceeds(k, i) =>
      /\ results[k].Attempts[i] - 1 = StatedBudget(plan[i], results[k].MaxRetries)
      /\ results[k].Steps[i] = "failed"

\* The budget the code uses is spent and the step is marked Failed.
C12_CodeBudget ==
  \A k \in 1..MaxPasses : \A i \in DOMAIN plan :
    RepairNeverSucceeds(k, i) =>
      /\ results[k].Attempts[i] - 1 =
           maxRetries(plan[i], [config EXCEPT !.MaxRetries = results[k].MaxRetries],
                      GlobalViolation)
      /\ results[k].Steps[i] = "failed"

C14_CheckOnlyNeverEnforces ==
  \A c \in Callers :
    (calls[c].op = "Run" /\ config.CheckOnly /\ calls[c].at = "done") =>
      /\ calls[c].passes = 1
      /\ ~calls[c].enforced
      /\ \A i \in DOMAIN calls[c].Steps :
           \/ calls[c].Steps[i] \in {"satisfied", "violated"}
           \/ plan[i].Handler \notin NewDefaultRegistry

\* A Run in CheckOnly mode performs exactly one pass.
C14_OnePass ==
  \A c \in Callers :
    (calls[c].op = "Run" /\ config.CheckOnly /\ calls[c].at = "done") =>
      calls[c].passes = 1

\* The call is inside runOnce's loop over the steps.
InPass(c) == calls[c].at \in {"step", "retry"}

\* C15: at most one pass executes steps on a Runtime at any time: the passes
\* of concurrent calls of RunOnce, Check and Run are serialized (the caller
\* inside a pass holds the mutex), so their step executions never interleave.
C15_PassesSerialized ==
  \A c1 \in Callers : \A c2 \in Callers :
    /\ InPass(c1) => mu = c1
    /\ (InPass(c1) /\ InPass(c2)) => c1 = c2

\* A call waits for the mutex while the pass of another call, which has
\* executed a step already, goes on.
C15_Witness ==
  \E c1 \in Callers : \E c2 \in Callers :
    /\ c1 # c2
    /\ InPass(c1)
    /\ calls[c1].Steps # <<>>
    /\ calls[c2].at = "lock"

\* C16: once the context is cancelled, runOnce starts no further step: it
\* returns a partial RunResult that contains only the steps started before
\* the cancellation, with AllSatisfied = false.
C16_NoStepAfterCancel ==
  \A c \in Callers :
    /\ calls[c].startedAfterCancel = 0
    /\ calls[c].partial => ~calls[c].AllSatisfied

\* A pass starts at most one step after its context was cancelled, and the
\* RunResult it then returns has AllSatisfied = false.
C16_OneStepAfterCancel ==
  \A c \in Callers :
    /\ calls[c].startedAfterCancel <= 1
    /\ calls[c].partial => ~calls[c].AllSatisfied

CancelledRun(c) ==
  calls[c].op = "Run" /\ ~config.CheckOnly /\ calls[c].ctxDone

\* C18: in continuous mode, if the context is cancelled and every handler
\* call returns, Run eventually returns the context's error, and it calls
\* runOnce for no new pass after the cancellation; a cancellation during the
\* sleep between two passes ends the sleep without the interval elapsing
\* (the property holds although nothing makes the timer fire).
C18_CancelledRunReturns ==
  /\ [][\A c \in Callers :
          (calls[c].op = "Run" /\ calls[c].ctxDone)
            => calls'[c].passes = calls[c].passes]_vars
  /\ \A c \in Callers :
       CancelledRun(c) ~> (calls[c].at = "done" /\ calls[c].err = "canceled")

\* A Run whose context was cancelled during the sleep after a pass has
\* returned the context's error.
C18_Witness ==
  \E c \in Callers :
    /\ CancelledRun(c)
    /\ calls[c].cancelAt = "sleep"
    /\ calls[c].passes >= 1
    /\ calls[c].at = "done"
    /\ calls[c].err = "canceled"

----------------------------------------------------------------------------
(* Policy expansion *)

\* Every on-block of a statement list, at any depth.
RECURSIVE OnBlocksOf(_)
OnBlocksOf(stmts) ==
  IF stmts = <<>> THEN {}
  ELSE (IF Head(stmts).kind = "on" THEN {Head(stmts)} ELSE {})
       \cup OnBlocksOf(Head(stmts).body) \cup OnBlocksOf(Tail(stmts))

\* The apply statements among a block's own statements.
AppliesOf(block) == {block.body[k] : k \in {k \in DOMAIN block.body : block.body[k].kind = "apply"}}

\* The program Binder.Bind hands to ExpandPolicies.
BoundProgram == BindProgram(ParseString(source).program).stmts

\* s is a clone of the policy's ensure statement e for the application a on
\* the subject: the condition of e, the subject, the handler of e with every
\* argument value that names a parameter replaced by the argument of a.
IsCloneOf(s, e, a, policy, subject) ==
  /\ s.kind = "ensure"
  /\ s.cond = e.cond
  /\ s.subject = subject
  /\ s.handler.name = e.handler.name
  /\ DOMAIN s.handler.args = DOMAIN e.handler.args
  /\ \A n \in DOMAIN e.handler.args :
       /\ s.handler.args[n][1] = e.handler.args[n][1]
       /\ \A i \in DOMAIN policy.handler.args :
            e.handler.args[n][2] = policy.handler.args[i]
              => s.handler.args[n][2] = a.handler.args[i]
       /\ e.handler.args[n][2] \notin Range(policy.handler.args)
              => s.handler.args[n][2] = e.handler.args[n][2]

\* The on-blocks among blocks, each apply statement of which has its clones
\* in the block of the same position and subject of the program.
ClonesPresent(blocks) ==
  \A B \in blocks : \A a \in AppliesOf(B) :
    LET policy == Lookup(collectPolicies(BoundProgram), a.handler.name)[1] IN
    \A j \in DOMAIN policy.body :
      policy.body[j].kind = "ensure" =>
        \E B2 \in OnBlocksOf(program) :
          /\ B2.pos = B.pos
          /\ B2.subject = B.subject
          /\ \E n \in DOMAIN B2.body :
               IsCloneOf(B2.body[n], policy.body[j], a, policy, B.subject)

\* C19: after ExpandPolicies no on-block of the program holds an apply
\* statement, and for every apply statement an on-block held, the block holds
\* a clone of every ensure statement of the policy, on the block's subject
\* and with the parameters in its handler arguments replaced by the
\* arguments of the application.
C19_AppliesExpanded ==
  stage = "bound" =>
    /\ \A B \in OnBlocksOf(program) : AppliesOf(B) = {}
    /\ ClonesPresent(OnBlocksOf(BoundProgram))

\* The same for the on-blocks that are statements of the program itself.
C19_TopLevelAppliesExpanded ==
  stage = "bound" =>
    /\ \A B \in Range(program) : B.kind = "on" => AppliesOf(B) = {}
    /\ ClonesPresent({B \in Range(BoundProgram) : B.kind = "on"})

\* A program with an apply statement in an on-block of its own has been
\* expanded.
C19_Witness ==
  /\ stage = "bound"
  /\ \E B \in Range(BoundProgram) : B.kind = "on" /\ AppliesOf(B) # {}

\* The plan of a program whose only apply statement was inside an invariant
\* block has no step of the policy.
C19_PolicyDropped ==
  /\ stage = "planned"
  /\ \E B \in OnBlocksOf(BoundProgram) : AppliesOf(B) # {}
  /\ \E k \in DOMAIN source : source[k].cond = "encrypted"
  /\ \A k \in DOMAIN plan : plan[k].ID.cond # "encrypted"

----------------------------------------------------------------------------
(* The handler of a plan step *)

\* The ensure statements of the program a step comes from: those with the
\* step's ID.
Originating(step) ==
  LET es == collectEnsures(program)
  IN {es[i] : i \in {i \in DOMAIN es : generateID(es[i]) = step.ID}}

\* C20: every plan step comes from an ensure statement of the program; if
\* that statement has a with clause the step has the handler name and the
\* arguments of the clause, otherwise the step has the default handler the
\* condition registry records for the statement's condition, which is what
\* the planner's own table of defaults gives for every registered condition.
C20_StepHandler ==
  /\ \A c \in DOMAIN registerBuiltins :
       getDefaultHandler(c) = registerBuiltins[c].DefaultHandler
  /\ \A k \in DOMAIN plan :
       /\ Originating(plan[k]) # {}
       /\ \A e \in Originating(plan[k]) :
            IF e.handler # NoHandler
            THEN /\ plan[k].Handler = e.handler.name
                 /\ plan[k].HandlerArgs = e.handler.args
            ELSE /\ plan[k].Handler = registerBuiltins[e.cond].DefaultHandler
                 /\ plan[k].HandlerArgs = <<>>

\* A plan with a step from a statement with a with clause and a step from a
\* statement without one.
C20_Witness ==
  /\ stage = "planned"
  /\ \E k \in DOMAIN plan : plan[k].Statement.handler # NoHandler
  /\ \E k \in DOMAIN plan :
       /\ plan[k].Statement.handler = NoHandler
       /\ plan[k].Handler # ""

----------------------------------------------------------------------------
(* Guards *)

\* The program Parser.Parse returns for the source.
ParsedProgram == ParseString(source).program

\* The guard is false under the program's assumptions: an assume statement
\* gives the guard's identifier a value the guard excludes.
GuardIsFalse(guard, prog) ==
  /\ guard.present
  /\ \E k \in DOMAIN prog :
       /\ prog[k].kind = "assume"
       /\ prog[k].guard.present
       /\ prog[k].guard.Operator = "=="
       /\ prog[k].guard.Left = guard.Left
       /\ \/ guard.Operator = "==" /\ prog[k].guard.Right # guard.Right
          \/ guard.Operator = "!=" /\ prog[k].guard.Right = guard.Right

\* The ensure statements of the source whose guard is false.
Deactivated ==
  LET es == collectEnsures(ParsedProgram)
  IN {es[i] : i \in {i \in DOMAIN es : GuardIsFalse(es[i].guard, ParsedProgram)}}

\* C21: an ensure statement whose when guard is false under the program's
\* assume statements contributes no step to the plan: no step comes from
\* the statement's position, neither for its condition nor for one implied
\* by it.
C21_FalseGuardNoStep ==
  \A e \in Deactivated : \A k \in DOMAIN plan : plan[k].Statement.pos # e.pos

\* The graph builder and the planner keep the guard of every statement and
\* never read it: every ensure statement of the source, guarded or not, that
\* the expander's deduplication leaves in the program has its step.
C21_GuardIgnored ==
  stage = "planned" =>
    \A k \in DOMAIN program :
      program[k].kind = "ensure" =>
        \E n \in DOMAIN plan : plan[n].Statement = program[k]

----------------------------------------------------------------------------
(* The scope of an on-block's subject *)

\* The ensure statements of the parsed program that name no subject and
\* stand, at the program's level, after an on-block.
AfterBlock ==
  {k \in DOMAIN ParsedProgram :
     /\ ParsedProgram[k].kind = "ensure"
     /\ ParsedProgram[k].subject = NoRef
     /\ \E j \in 1..(k - 1) : ParsedProgram[j].kind = "on"}

\* The last subject an ensure statement of the program's own level names
\* before statement k, NoRef if there is none.
LevelSubject(k) ==
  LET named == {i \in 1..(k - 1) : /\ ParsedProgram[i].kind = "ensure"
                                   /\ ParsedProgram[i].subject # NoRef}
  IN IF named = {} THEN NoRef
     ELSE ParsedProgram[CHOOSE i \in named : \A j \in named : j <= i].subject

\* The last subject named before statement k by an ensure statement of the
\* program's level or by an on-block.
SlotSubject(k) ==
  LET named == {i \in 1..(k - 1) : /\ ParsedProgram[i].kind \in {"ensure", "on"}
                                   /\ ParsedProgram[i].subject # NoRef}
  IN IF named = {} THEN NoRef
     ELSE ParsedProgram[CHOOSE i \in named : \A j \in named : j <= i].subject

\* The statement of the bound program that stands at a position of the source.
BoundAt(pos) == {s \in Range(program) : s.kind = "ensure" /\ s.pos = pos}

\* C22: an ensure statement without a subject that follows an on-block at
\* the enclosing level is bound to the last subject seen at that level
\* before the block, never to the block's subject; if no subject was seen
\* there, binding reports an error and does not succeed.
C22_BlockSubjectScoped ==
  stage = "bound" =>
    \A k \in AfterBlock :
      /\ LevelSubject(k) # NoRef
      /\ \A s \in BoundAt(ParsedProgram[k].pos) : s.subject = LevelSubject(k)

\* What the binder does: bindOnBlock stores the block's subject in the
\* enclosing slot, so the statement is bound to the block's subject when the
\* block is the last statement before it that names one.
C22_BlockSubjectKept ==
  stage = "bound" =>
    \A k \in AfterBlock :
      /\ BoundAt(ParsedProgram[k].pos) # {}
      /\ \A s \in BoundAt(ParsedProgram[k].pos) : s.subject = SlotSubject(k)

----------------------------------------------------------------------------
(* Aliases *)

\* The resource a reference stands for: the declaration's type and path for
\* a declared alias, the reference itself otherwise.
Resolve(ref) ==
  LET decls == {d \in Range(program) : d.kind = "resource" /\ d.subject.alias = ref.alias}
  IN IF ref.alias # "" /\ decls # {}
     THEN LET d == CHOOSE d \in decls : TRUE IN InlineRef(d.subject.rtype, d.subject.path)
     ELSE ref

\* The ensure statements of the program's own level.
TopEnsures == SelectSeq(program, LAMBDA s : s.kind = "ensure")

\* C23: an ensure statement on a declared alias and one on the inline
\* reference the alias was declared for are on the same subject: after
\* expansion no two statements have one condition on one resource, a program
\* with conflicting conditions on one resource does not pass the conflict
\* check, and a node has an implies edge from every node of the same
\* resource whose condition it implies.
C23_AliasSameSubject ==
  /\ stage \in {"expanded", "checked", "built", "planned"} =>
       \A i, j \in DOMAIN TopEnsures :
         (i < j /\ TopEnsures[i].cond = TopEnsures[j].cond)
           => Resolve(TopEnsures[i].subject) # Resolve(TopEnsures[j].subject)
  /\ stage \in {"checked", "built", "planned"} =>
       \A i, j \in DOMAIN TopEnsures :
         Resolve(TopEnsures[i].subject) = Resolve(TopEnsures[j].subject)
           => TopEnsures[j].cond \notin ConflictsOf(TopEnsures[i].cond)
  /\ stage \in {"built", "planned"} =>
       \A n, m \in DOMAIN graph.Nodes :
         (/\ Resolve(graph.Nodes[n].Statement.subject)
               = Resolve(graph.Nodes[m].Statement.subject)
          /\ n.cond \in DOMAIN impliedBy
          /\ m.cond \in Range(impliedBy[n.cond]))
           => \E e \in BagToSet(graph.Edges) :
                e.To = n /\ e.Type = "implies" /\ e.From = m

\* What the code does: the subject of a statement is the string of its
\* reference, the bare alias for an alias, so the statements left by
\* deduplication differ in condition or in that string.
C23_SubjectIsRefString ==
  stage \in {"expanded", "checked", "built", "planned"} =>
    \A i, j \in DOMAIN TopEnsures :
      (i < j /\ TopEnsures[i].cond = TopEnsures[j].cond)
        => RefString(TopEnsures[i].subject) # RefString(TopEnsures[j].subject)

----------------------------------------------------------------------------
(* Invariant blocks in the plan *)

\* The source program has no requires, after or before clause.
NoClauses == \A i \in DOMAIN source : source[i].clause = NoClause

\* C24: in the plan of a program without requires, after and before clauses
\* every step of an invariant block comes before every step that is not of
\* an invariant block.
C24_InvariantsFirst ==
  (stage = "planned" /\ NoClauses) =>
    \A i, j \in DOMAIN plan :
      (plan[i].IsInvariant /\ ~plan[j].IsInvariant) => i < j

\* What TopoSort does: among the nodes that are ready together the
\* invariant ones are taken first, so a step outside the invariant blocks
\* precedes an invariant step only if an edge leads from a step outside the
\* blocks to it or to an invariant step before it.
C24_InvariantsFirstAmongReady ==
  (stage = "planned" /\ NoClauses) =>
    \A i, j \in DOMAIN plan :
      (plan[i].IsInvariant /\ ~plan[j].IsInvariant /\ j < i)
        => \E k \in 1..i, e \in BagToSet(graph.Edges) :
             /\ plan[k].IsInvariant
             /\ e.To = plan[k].ID
             /\ e.From \notin graph.Invariants

----------------------------------------------------------------------------
(* For-each loops *)

\* The for-each loops of a program, at its own level and in its invariant
\* blocks.
ForEachOf(prog) ==
  {s \in Range(prog) : s.kind = "foreach"}
    \cup UNION {{s \in Range(b.body) : s.kind = "foreach"} :
                b \in {b \in Range(prog) : b.kind = "invariant"}}

\* The source has a for-each loop with an ensure statement that names no
\* subject.
ImplicitInForEach ==
  \E l \in ForEachOf(ParsedProgram) :
    \E s \in Range(l.body) : s.kind = "ensure" /\ s.subject = NoRef

\* C25: binding a for-each loop, at the top level or in an invariant block,
\* whose body has ensure statements without a subject reports no binding
\* error and keeps those statements in the loop.
C25_ForEachBodyBound ==
  ImplicitInForEach =>
    /\ err # "binding"
    /\ stage = "bound" =>
         \A l \in ForEachOf(ParsedProgram) :
           \E b \in ForEachOf(program) : b.pos = l.pos /\ Len(b.body) = Len(l.body)

\* What the binder does: bindForEachStmt binds every statement of the body
\* from a nil slot, so each ensure statement without a subject is an error
\* and the program does not compile.
C25_ForEachBodyRejected ==
  (ImplicitInForEach /\ stage \notin {"source", "parsed"}) =>
    (stage = "failed" /\ err = "binding")

----------------------------------------------------------------------------
(* Per-statement on-violation blocks *)

\* The lines of the source that are an ensure statement with an
\* on-violation block directly after it.
WithOwnHandler ==
  {i \in DOMAIN source :
     i < Len(source) /\ source[i].scope = "top" /\ source[i + 1].scope = "violation"}

\* The statement of line i carries the handler of the block after it.
HandlerAttached(i) ==
  \E s \in Range(program) :
    /\ s.kind = "ensure"
    /\ s.pos = i
    /\ s.violation = parseViolationHandlerBlock(source[i + 1].cond)

\* C26: an on-violation block directly after an ensure statement is parsed
\* without error and becomes the handler of that statement, whether the
\* statement names its subject with "on" or takes it implicitly.
C26_OwnHandlerParsed ==
  WithOwnHandler # {} =>
    /\ err # "parsing"
    /\ stage = "parsed" => \A i \in WithOwnHandler : HandlerAttached(i)

\* What the parser does: the block is attached when the statement names its
\* subject; after a statement without a subject parseEnsureStmt reads
\* "on violation" as "on <resource>" and the parse fails.
C26_OwnHandlerNeedsSubject ==
  /\ (\E i \in WithOwnHandler : source[i].subject = NoRef)
       => (stage # "source" => stage = "failed" /\ err = "parsing")
  /\ (WithOwnHandler # {} /\ \A i \in WithOwnHandler : source[i].subject # NoRef)
       => /\ err # "parsing"
          /\ stage = "parsed" => \A i \in WithOwnHandler : HandlerAttached(i)

----------------------------------------------------------------------------
(* Node IDs *)

\* The addGuarantee calls Build made on the program.
GuaranteeCalls == buildFromStatements(program, FALSE, 0)

\* C27: every guarantee gets a node ID of its own: building the graph never
\* stores a statement under the ID of an earlier statement that differs from
\* it in condition, subject, handler or handler arguments.
C27_NoNodeOverwritten ==
  stage \in {"built", "planned"} =>
    \A i, j \in DOMAIN GuaranteeCalls :
      (i < j /\ generateID(GuaranteeCalls[i].stmt) = generateID(GuaranteeCalls[j].stmt))
        => /\ GuaranteeCalls[i].stmt.cond = GuaranteeCalls[j].stmt.cond
           /\ GuaranteeCalls[i].stmt.subject = GuaranteeCalls[j].stmt.subject
           /\ GuaranteeCalls[i].stmt.handler = GuaranteeCalls[j].stmt.handler

\* What addGuarantee does: the node of an ID is the statement of the last
\* call with that ID.
C27_LastCallKept ==
  stage \in {"built", "planned"} =>
    \A id \in DOMAIN graph.Nodes :
      \E j \in DOMAIN GuaranteeCalls :
        /\ generateID(GuaranteeCalls[j].stmt) = id
        /\ graph.Nodes[id].Statement = GuaranteeCalls[j].stmt
        /\ \A k \in DOMAIN GuaranteeCalls :
             k > j => generateID(GuaranteeCalls[k].stmt) # id

----------------------------------------------------------------------------
(* Check and the configured DryRun *)

\* C28: a call of Check never invokes a handler's Enforce, whatever other
\* calls of Check or RunOnce run on the same Runtime at the same time.
C28_CheckNeverEnforces ==
  \A c \in Callers : calls[c].op = "Check" => ~calls[c].enforced

\* What the code ensures: a call of Check invokes no Enforce while no other
\* goroutine has called Check on the Runtime; DryRun is written outside the
\* mutex, and the deferred reset of one Check clears it under another.
C28_LoneCheckNeverEnforces ==
  \A c \in Callers :
    (calls[c].op = "Check" /\ \A d \in Callers \ {c} : calls[d].op # "Check")
      => ~calls[c].enforced

\* The Runtime was built with DryRun set: of the configurations the
\* commands build only cmdCheck's sets DryRun, together with CheckOnly, and
\* no code writes CheckOnly.
ConfiguredDryRun == config # NoConfig /\ config.CheckOnly

\* Enforce was invoked in a pass that has returned: a step was attempted
\* more often than the one check executeStep starts with.
EnforceInvoked ==
  \E k \in DOMAIN results : \E i \in DOMAIN results[k].Attempts :
    results[k].Attempts[i] > 1

\* C29: Check leaves the configured DryRun value as it was: on a Runtime
\* configured with DryRun = true it is set between the calls, and no
\* sequence of Check and RunOnce calls, one after the other, invokes a
\* handler's Enforce.
C29_DryRunConfigKept ==
  ConfiguredDryRun =>
    /\ pc = 0 => config.DryRun
    /\ ~EnforceInvoked

\* What Check does: DryRun is set while its pass runs and clear once it has
\* returned, whatever the Runtime was configured with.
C29_DryRunClearedByCheck ==
  /\ (config # NoConfig /\ viaCheck /\ pc > 0) => config.DryRun
  /\ [][(viaCheck /\ pc > 0 /\ pc' = 0) => ~config'.DryRun]_vars

----------------------------------------------------------------------------
(* Explicit handlers in the plan *)

\* The lines of the source that are an ensure statement with a handler.
WithHandler ==
  {i \in DOMAIN source : source[i].scope = "top" /\ source[i].handler # NoHandler}

\* The plan has a step for the condition and subject of line i that uses
\* the line's handler and arguments.
StepUsesHandlerOf(i) ==
  \E k \in DOMAIN plan :
    /\ plan[k].ID.cond = source[i].cond
    /\ plan[k].Statement.subject = source[i].subject
    /\ plan[k].Handler = source[i].handler.name
    /\ plan[k].HandlerArgs = source[i].handler.args

\* C30: an explicit handler is never lost: for every ensure statement of
\* the program with a "with" clause the plan has a step for its condition
\* and subject that uses that handler and its arguments; an implied
\* duplicate of the statement does not replace it.
C30_ExplicitHandlerKept ==
  stage = "planned" => \A i \in WithHandler : StepUsesHandlerOf(i)

\* What deduplicate ensures: the first statement of a key is the one kept,
\* so the handler is in the plan if no earlier statement is on the same
\* subject.
C30_FirstOfKeyKept ==
  stage = "planned" =>
    \A i \in WithHandler :
      (\A j \in 1..(i - 1) : source[j].subject # source[i].subject)
        => StepUsesHandlerOf(i)

====
